---- MODULE Spec2Model ----
(***************************************************************************)
(* Model of the synthetic patient generator of phenotype2phenopacket       *)
(* (src/src/phenotype2phenopacket/utils/phenopacket_utils.py).             *)
(*                                                                         *)
(* Text is modelled as a sequence of one-character strings, so that the    *)
(* dispatch on the textual form of a frequency field and the parsers       *)
(* behind it (float, fractions.Fraction, str.strip) are computed, not      *)
(* assumed.  Numbers are exact rationals [num, den] with den > 0.          *)
(* A uniform draw is an input chosen from a small set of representative    *)
(* values of its interval.                                                 *)
(***************************************************************************)
EXTENDS Integers, Sequences, FiniteSets, TLC

VARIABLES
    disease_df,     \* self.disease_df: the disease annotation set (rows)
    frequency_df,   \* argument of filter_phenotype_entries (augmented, shuffled)
    max_number,     \* argument of filter_phenotype_entries (the term budget)
    filtered_df,    \* self.filtered_df: the accepted list
    worker,         \* position of the worker thread
    idx,            \* position of the worker's for loop in frequency_df (1-based)
    supervisor,     \* position of the calling thread
    timed_out,      \* thread.join returned because time_limit elapsed
    outcome,        \* how filter_phenotype_entries ended
    result,         \* the rows filter_phenotype_entries returned
    last,           \* the last direct call of a frequency test and its inputs
    ontology,       \* self.ontology: labels, parents and incoming relationships
    patient_terms,  \* patient_term_annotation_set: the rows of get_patient_terms
    patient_terms_sub_sample,   \* the rows drawn for mutation
    new_phenotype_terms,        \* the mutated rows so far
    final_patient_terms,        \* the rows patient_term_annotation_set returned
    mutator,        \* position in patient_term_annotation_set
    walk,           \* the last ontology walk: its inputs and what it returned
    lower_age,      \* self.lower_age
    upper_age,      \* self.upper_age
    onset_range,    \* the OnsetTerm get_onset_range returned
    individual,     \* the Individual create_individual returned
    assembler,      \* position of the caller of the converter's methods
    omim_disease_df,        \* argument of create_phenotypic_features (rows)
    phenotypic_features,    \* the list create_phenotypic_features returned (empty before)
    disease_name,   \* argument of create_phenopacket_file_name_from_disease
    output_file,    \* the file name it returned, argument of write_phenopacket
    files,          \* the files of the output directory
    written         \* the file each write_phenopacket call opened, in call order

\* state of the sampler
sampler_vars == <<disease_df, frequency_df, max_number, filtered_df, worker, idx,
                  supervisor, timed_out, outcome, result, last>>

\* state of the mutator
mutator_vars == <<ontology, patient_terms, patient_terms_sub_sample,
                  new_phenotype_terms, final_patient_terms, mutator, walk>>

\* state of the onset range and of the converter: individual and features
onset_vars == <<lower_age, upper_age, onset_range, individual, assembler,
                omim_disease_df, phenotypic_features>>

\* state of the output directory
file_vars == <<disease_name, output_file, files, written>>

vars == <<sampler_vars, mutator_vars, onset_vars, file_vars>>

-----------------------------------------------------------------------------
(* Bounds *)

MaxRows == 3          \* largest disease annotation set
MaxAccepted == 2      \* longest accepted list built by direct test calls

-----------------------------------------------------------------------------
(* Numbers *)

Rat(n, d) == [num |-> n, den |-> d]

Leq(a, b) == a.num * b.den <= b.num * a.den

Lt(a, b) == a.num * b.den < b.num * a.den

-----------------------------------------------------------------------------
(* Text *)

Digits == {"0", "1", "2", "3", "4", "5", "6", "7", "8", "9"}

DigitValue == ("0" :> 0) @@ ("1" :> 1) @@ ("2" :> 2) @@ ("3" :> 3) @@ ("4" :> 4)
              @@ ("5" :> 5) @@ ("6" :> 6) @@ ("7" :> 7) @@ ("8" :> 8) @@ ("9" :> 9)

AllDigits(s) == \A i \in 1..Len(s) : s[i] \in Digits

RECURSIVE IntOf(_)
IntOf(s) == IF s = <<>> THEN 0
            ELSE 10 * IntOf(SubSeq(s, 1, Len(s) - 1)) + DigitValue[s[Len(s)]]

RECURSIVE Pow10(_)
Pow10(n) == IF n = 0 THEN 1 ELSE 10 * Pow10(n - 1)

startswith(s, p) == Len(s) >= Len(p) /\ SubSeq(s, 1, Len(p)) = p

endswith(s, p) == Len(s) >= Len(p) /\ SubSeq(s, Len(s) - Len(p) + 1, Len(s)) = p

contains(s, c) == \E i \in 1..Len(s) : s[i] = c

\* str.strip(c): drop every leading and trailing c
RECURSIVE strip(_, _)
strip(s, c) == IF s = <<>> THEN s
               ELSE IF Head(s) = c THEN strip(Tail(s), c)
               ELSE IF s[Len(s)] = c THEN strip(SubSeq(s, 1, Len(s) - 1), c)
               ELSE s

\* The Python value None of a nullable column, and its str()
None == <<"None">>

str(x) == IF x = None THEN <<"N", "o", "n", "e">> ELSE x

\* float(text): over the alphabet used here (digits, ".", "%", "/", ":",
\* letters) the accepted texts are digits with at most one point and at least
\* one digit; anything else raises ValueError.
PointAt(s) == CHOOSE i \in 1..Len(s) : s[i] = "."

FloatParses(s) ==
    IF contains(s, ".")
    THEN LET p == PointAt(s)
             whole == SubSeq(s, 1, p - 1)
             frac == SubSeq(s, p + 1, Len(s))
         IN AllDigits(whole) /\ AllDigits(frac) /\ Len(whole) + Len(frac) > 0
    ELSE Len(s) > 0 /\ AllDigits(s)

FloatOf(s) ==
    IF contains(s, ".")
    THEN LET p == PointAt(s)
             whole == SubSeq(s, 1, p - 1)
             frac == SubSeq(s, p + 1, Len(s))
         IN Rat(IntOf(whole) * Pow10(Len(frac)) + IntOf(frac), Pow10(Len(frac)))
    ELSE Rat(IntOf(s), 1)

\* utils.is_float
is_float(element) == IF element = None THEN FALSE ELSE FloatParses(element)

\* fractions.Fraction(text) for a text holding "/": numerator "/" denominator,
\* both non-empty digit runs (ValueError otherwise), denominator not zero
\* (ZeroDivisionError otherwise).
SlashAt(s) == CHOOSE i \in 1..Len(s) : s[i] = "/" /\ \A j \in 1..(i - 1) : s[j] # "/"

FractionParses(s) ==
    /\ contains(s, "/")
    /\ LET p == SlashAt(s)
           n == SubSeq(s, 1, p - 1)
           d == SubSeq(s, p + 1, Len(s))
       IN /\ Len(n) > 0 /\ AllDigits(n)
          /\ Len(d) > 0 /\ AllDigits(d)
          /\ IntOf(d) # 0

FractionOf(s) ==
    LET p == SlashAt(s)
    IN Rat(IntOf(SubSeq(s, 1, p - 1)), IntOf(SubSeq(s, p + 1, Len(s))))

-----------------------------------------------------------------------------
(* Rows and the frequency table *)

\* One annotation row (the dict of DataFrame.rows(named=True)); two rows are
\* equal iff they agree on every field.
Row(h, f) == [hpo_id |-> h, frequency |-> f]

FrequencyTerm(l, u) == [lower |-> l, upper |-> u]

HP(digits) == <<"H", "P", ":">> \o digits

HP_0040280 == HP(<<"0", "0", "4", "0", "2", "8", "0">>)
HP_0040281 == HP(<<"0", "0", "4", "0", "2", "8", "1">>)
HP_0040282 == HP(<<"0", "0", "4", "0", "2", "8", "2">>)
HP_0040283 == HP(<<"0", "0", "4", "0", "2", "8", "3">>)
HP_0040284 == HP(<<"0", "0", "4", "0", "2", "8", "4">>)
HP_0040285 == HP(<<"0", "0", "4", "0", "2", "8", "5">>)
HP_0040286 == HP(<<"0", "0", "4", "0", "2", "8", "6">>)

frequency_hpo ==
    (HP_0040281 :> FrequencyTerm(0, 0))
    @@ (HP_0040282 :> FrequencyTerm(1, 4))
    @@ (HP_0040283 :> FrequencyTerm(5, 29))
    @@ (HP_0040284 :> FrequencyTerm(30, 79))
    @@ (HP_0040285 :> FrequencyTerm(80, 99))
    @@ (HP_0040286 :> FrequencyTerm(100, 100))
    @@ (HP_0040280 :> FrequencyTerm(100, 100))

-----------------------------------------------------------------------------
(* Random draws.  A draw of uniform(a, b) is a + (b - a) * u / 100 for a     *)
(* u of UnitDraws; the values sit on and around the thresholds of the        *)
(* frequencies used below.                                                   *)

UnitDraws == {0, 30, 33, 34, 50, 79, 80, 90, 100}

uniform_0_100(u) == Rat(u, 1)

uniform_0_1(u) == Rat(u, 100)

-----------------------------------------------------------------------------
(* The frequency tests.  Each returns the accepted list after the call and   *)
(* whether the call raised; kind names the test check_frequency chose.       *)

Returned(list, k) == [filtered_df |-> list, raised |-> FALSE, kind |-> k]

Raised(list, k) == [filtered_df |-> list, raised |-> TRUE, kind |-> k]

\* phenotype_entry in self.filtered_df
In(phenotype_entry, list) == \E i \in 1..Len(list) : list[i] = phenotype_entry

\* check_hpo_frequency with the bounds of the bin included
check_hpo_frequency_inclusive(list, phenotype_entry, u) ==
    IF phenotype_entry.frequency \notin DOMAIN frequency_hpo
    THEN Raised(list, "hpo")
    ELSE LET frequency_limits == frequency_hpo[phenotype_entry.frequency]
             random_frequency == uniform_0_100(u)
         IN IF /\ frequency_limits.lower = 100
               /\ frequency_limits.upper = 100
               /\ ~In(phenotype_entry, list)
            THEN Returned(Append(list, phenotype_entry), "hpo")
            ELSE IF /\ Leq(Rat(frequency_limits.lower, 1), random_frequency)
                    /\ Leq(random_frequency, Rat(frequency_limits.upper, 1))
                    /\ ~In(phenotype_entry, list)
                 THEN Returned(Append(list, phenotype_entry), "hpo")
                 ELSE Returned(list, "hpo")

check_hpo_frequency(list, phenotype_entry, u) ==
    IF phenotype_entry.frequency \notin DOMAIN frequency_hpo
    THEN Raised(list, "hpo")    \* KeyError
    ELSE LET frequency_limits == frequency_hpo[phenotype_entry.frequency]
             random_frequency == uniform_0_100(u)
         IN IF /\ frequency_limits.lower = 100
               /\ frequency_limits.upper = 100
               /\ ~In(phenotype_entry, list)
            THEN Returned(Append(list, phenotype_entry), "hpo")
            ELSE IF /\ Lt(Rat(frequency_limits.lower, 1), random_frequency)
                    /\ Lt(random_frequency, Rat(frequency_limits.upper, 1))
                    /\ ~In(phenotype_entry, list)
                 THEN Returned(Append(list, phenotype_entry), "hpo")
                 ELSE Returned(list, "hpo")

\* check_frequency_threshold with a strict comparison
check_frequency_threshold_strict(list, frequency, phenotype_entry, random_frequency, k) ==
    IF Lt(random_frequency, frequency) /\ ~In(phenotype_entry, list)
    THEN Returned(Append(list, phenotype_entry), k)
    ELSE Returned(list, k)

\* check_frequency_threshold without the membership test
check_frequency_threshold_unguarded(list, frequency, phenotype_entry, random_frequency, k) ==
    IF Leq(random_frequency, frequency)
    THEN Returned(Append(list, phenotype_entry), k)
    ELSE Returned(list, k)

\* frequency is the number float(frequency) of line 269
check_frequency_threshold(list, frequency, phenotype_entry, random_frequency, k) ==
    IF Leq(random_frequency, frequency) /\ ~In(phenotype_entry, list)
    THEN Returned(Append(list, phenotype_entry), k)
    ELSE Returned(list, k)

check_percentage_frequency(list, phenotype_entry, u) ==
    LET frequency == strip(phenotype_entry.frequency, "%")
        random_frequency == uniform_0_100(u)
    IN IF phenotype_entry.frequency = None \/ ~FloatParses(frequency)
       THEN Raised(list, "percentage")    \* AttributeError, ValueError
       ELSE check_frequency_threshold(list, FloatOf(frequency), phenotype_entry,
                                      random_frequency, "percentage")

check_fraction_frequency(list, phenotype_entry, u) ==
    LET random_frequency == uniform_0_1(u)
    IN IF phenotype_entry.frequency = None \/ ~contains(phenotype_entry.frequency, "/")
       THEN IF is_float(phenotype_entry.frequency)    \* Fraction of a decimal text
            THEN check_frequency_threshold(list, FloatOf(phenotype_entry.frequency),
                                           phenotype_entry, random_frequency, "fraction")
            ELSE Raised(list, "fraction")    \* TypeError, ValueError
       ELSE IF ~FractionParses(phenotype_entry.frequency)
            THEN Raised(list, "fraction")    \* ValueError, ZeroDivisionError
            ELSE check_frequency_threshold(list, FractionOf(phenotype_entry.frequency),
                                           phenotype_entry, random_frequency, "fraction")

check_float_frequency(list, phenotype_entry, u) ==
    LET random_frequency == uniform_0_1(u)
    IN IF ~is_float(phenotype_entry.frequency)
       THEN Raised(list, "float")    \* TypeError, ValueError
       ELSE check_frequency_threshold(list, FloatOf(phenotype_entry.frequency),
                                      phenotype_entry, random_frequency, "float")

\* check_frequency that accepts a row whose frequency has none of the forms
check_frequency_unmatched_accepted(list, phenotype_entry, u) ==
    IF startswith(str(phenotype_entry.frequency), <<"H", "P", ":">>)
    THEN check_hpo_frequency(list, phenotype_entry, u)
    ELSE IF endswith(str(phenotype_entry.frequency), <<"%">>)
    THEN check_percentage_frequency(list, phenotype_entry, u)
    ELSE IF contains(str(phenotype_entry.frequency), "/")
    THEN check_fraction_frequency(list, phenotype_entry, u)
    ELSE IF is_float(phenotype_entry.frequency)
    THEN check_float_frequency(list, phenotype_entry, u)
    ELSE Returned(Append(list, phenotype_entry), "none")

\* check_frequency with the fraction form tried before the percentage form
check_frequency_fraction_first(list, phenotype_entry, u) ==
    IF startswith(str(phenotype_entry.frequency), <<"H", "P", ":">>)
    THEN check_hpo_frequency(list, phenotype_entry, u)
    ELSE IF contains(str(phenotype_entry.frequency), "/")
    THEN check_fraction_frequency(list, phenotype_entry, u)
    ELSE IF endswith(str(phenotype_entry.frequency), <<"%">>)
    THEN check_percentage_frequency(list, phenotype_entry, u)
    ELSE IF is_float(phenotype_entry.frequency)
    THEN check_float_frequency(list, phenotype_entry, u)
    ELSE Returned(list, "none")

check_frequency(list, phenotype_entry, u) ==
    IF startswith(str(phenotype_entry.frequency), <<"H", "P", ":">>)
    THEN check_hpo_frequency(list, phenotype_entry, u)
    ELSE IF endswith(str(phenotype_entry.frequency), <<"%">>)
    THEN check_percentage_frequency(list, phenotype_entry, u)
    ELSE IF contains(str(phenotype_entry.frequency), "/")
    THEN check_fraction_frequency(list, phenotype_entry, u)
    ELSE IF is_float(phenotype_entry.frequency)
    THEN check_float_frequency(list, phenotype_entry, u)
    ELSE Returned(list, "none")

-----------------------------------------------------------------------------
(* Inputs of the frequency tests *)

\* One text per textual form of the frequency field, well-formed and not:
\* bins, an identifier that is no bin, percentages, fractions, decimals,
\* a word, and texts that have several of the forms at once.
TestFrequencies ==
    { HP_0040281, HP_0040284, HP_0040285, HP_0040286,
      HP(<<"0", "0", "0", "0", "0", "0", "1">>),
      <<"5", "0", "%">>, <<"a", "b", "c", "%">>,
      <<"1", "/", "3">>, <<"1", "/", "x">>, <<"1", "/", "0">>,
      <<"0", ".", "5">>,
      <<"o", "f", "t", "e", "n">>,
      HP(<<"1", "/", "2", "%">>), <<"1", "/", "2", "%">>,
      None }

TestRows == {Row("HP:0000143", f) : f \in TestFrequencies}
            \cup {Row("HP:0004387", HP_0040286)}

ThresholdRows == {Row("HP:0000143", <<"5", "0", "%">>),
                  Row("HP:0000143", <<"1", "/", "3">>)}

NoCall == [op |-> "none", phenotype_entry |-> Row("", None), u |-> 0,
           frequency |-> Rat(0, 1), raised |-> FALSE, kind |-> "none"]

Call(o, e, d, r) == [op |-> o, phenotype_entry |-> e, u |-> d,
                     frequency |-> Rat(0, 1), raised |-> r.raised, kind |-> r.kind]

-----------------------------------------------------------------------------
(* The parts of the state a specification does not use stay at these values *)

\* The Python value None where an object may stand
Absent == [absent |-> TRUE]

NoOntology == [labels |-> <<>>, parents |-> <<>>]

NoWalk == [op |-> "none", phenotype_entry |-> <<>>, draw |-> 0, steps |-> 0,
           returned |-> <<>>, parents_calls |-> 0]

SamplerIdle ==
    /\ disease_df = <<>>
    /\ frequency_df = <<>>
    /\ max_number = 0
    /\ filtered_df = <<>>
    /\ worker = "none"
    /\ idx = 0
    /\ supervisor = "none"
    /\ timed_out = FALSE
    /\ outcome = "none"
    /\ result = <<>>
    /\ last = NoCall

MutatorIdle ==
    /\ ontology = NoOntology
    /\ patient_terms = <<>>
    /\ patient_terms_sub_sample = <<>>
    /\ new_phenotype_terms = <<>>
    /\ final_patient_terms = <<>>
    /\ mutator = "none"
    /\ walk = NoWalk

OnsetIdle ==
    /\ lower_age = 0
    /\ upper_age = 0
    /\ onset_range = Absent
    /\ individual = Absent
    /\ assembler = "none"
    /\ omim_disease_df = <<>>
    /\ phenotypic_features = <<>>

FilesIdle ==
    /\ disease_name = <<>>
    /\ output_file = <<>>
    /\ files = {}
    /\ written = <<>>

-----------------------------------------------------------------------------
(* Direct calls of the frequency tests on one generator, as the unit tests   *)
(* make them: any test on any row, any number of times.                      *)

FrequencyInit ==
    /\ disease_df = <<>>
    /\ frequency_df = <<>>
    /\ max_number = 0
    /\ filtered_df = <<>>
    /\ worker = "none"
    /\ idx = 0
    /\ supervisor = "test"
    /\ timed_out = FALSE
    /\ outcome = "none"
    /\ result = <<>>
    /\ last = NoCall
    /\ MutatorIdle /\ OnsetIdle /\ FilesIdle

Apply(o, e, d, r) ==
    /\ supervisor = "test"
    /\ last = NoCall
    /\ Len(r.filtered_df) <= MaxAccepted
    /\ filtered_df' = r.filtered_df
    /\ last' = Call(o, e, d, r)
    /\ UNCHANGED <<disease_df, frequency_df, max_number, worker, idx, supervisor,
                   timed_out, outcome, result,
                   mutator_vars, onset_vars, file_vars>>

TestCheckFrequency ==
    \E e \in TestRows, u \in UnitDraws :
        Apply("check_frequency", e, u, check_frequency(filtered_df, e, u))

TestCheckHpoFrequency ==
    \E e \in TestRows, u \in UnitDraws :
        Apply("check_hpo_frequency", e, u, check_hpo_frequency(filtered_df, e, u))

TestCheckPercentageFrequency ==
    \E e \in TestRows, u \in UnitDraws :
        Apply("check_percentage_frequency", e, u,
              check_percentage_frequency(filtered_df, e, u))

TestCheckFractionFrequency ==
    \E e \in TestRows, u \in UnitDraws :
        Apply("check_fraction_frequency", e, u,
              check_fraction_frequency(filtered_df, e, u))

TestCheckFloatFrequency ==
    \E e \in TestRows, u \in UnitDraws :
        Apply("check_float_frequency", e, u, check_float_frequency(filtered_df, e, u))

\* check_frequency_threshold called with a number and a draw of its own
TestCheckFrequencyThreshold ==
    \E e \in ThresholdRows, u \in UnitDraws, f \in {Rat(50, 1), Rat(1, 3)} :
        LET r == check_frequency_threshold(filtered_df, f, e, uniform_0_100(u), "threshold")
        IN /\ supervisor = "test"
           /\ last = NoCall
           /\ Len(r.filtered_df) <= MaxAccepted
           /\ filtered_df' = r.filtered_df
           /\ last' = [Call("check_frequency_threshold", e, u, r) EXCEPT !.frequency = f]
           /\ UNCHANGED <<disease_df, frequency_df, max_number, worker, idx, supervisor,
                          timed_out, outcome, result,
                          mutator_vars, onset_vars, file_vars>>

\* TestSyntheticPatientGenerator.tearDown
\* The call returns to the test method: last holds a call only from the call
\* to its return.
TestReturns ==
    /\ supervisor = "test"
    /\ last # NoCall
    /\ last' = NoCall
    /\ UNCHANGED <<disease_df, frequency_df, max_number, filtered_df, worker, idx,
                   supervisor, timed_out, outcome, result,
                   mutator_vars, onset_vars, file_vars>>

tearDown ==
    /\ supervisor = "test"
    /\ last = NoCall
    /\ filtered_df # <<>>
    /\ filtered_df' = <<>>
    /\ last' = NoCall
    /\ UNCHANGED <<disease_df, frequency_df, max_number, worker, idx, supervisor,
                   timed_out, outcome, result,
                   mutator_vars, onset_vars, file_vars>>

FrequencyNext ==
    \/ TestCheckFrequency
    \/ TestCheckHpoFrequency
    \/ TestCheckPercentageFrequency
    \/ TestCheckFractionFrequency
    \/ TestCheckFloatFrequency
    \/ TestCheckFrequencyThreshold
    \/ TestReturns
    \/ tearDown

FrequencySpec == FrequencyInit /\ [][FrequencyNext]_vars

-----------------------------------------------------------------------------
(* get_patient_terms: add_frequency, shuffle_dataframe, get_number_of_terms, *)
(* then filter_phenotype_entries with its worker thread.                     *)

\* Frequencies of the rows of a disease annotation set, one per way a row
\* behaves in the sampler: always accepted, accepted on some draws
\* (a fraction), never accepted (the bin [0,0], a word), malformed (a
\* percentage that is no number), and null (a decimal after add_frequency).
SampleFrequencies ==
    << HP_0040286, <<"1", "/", "3">>, HP_0040281,
       <<"o", "f", "t", "e", "n">>, <<"a", "b", "c", "%">>, None >>

\* The disease annotation sets: 1..MaxRows rows.  shuffle_dataframe makes the
\* order of the input rows irrelevant, so one order stands for each multiset.
DiseaseSets ==
    { [i \in 1..Len(c) |-> Row("HP:0000143", SampleFrequencies[c[i]])] :
        c \in { d \in UNION {[1..n -> 1..Len(SampleFrequencies)] : n \in 1..MaxRows} :
                  \A i \in 1..(Len(d) - 1) : d[i] <= d[i + 1] } }

\* secret_rand.uniform(0, 1) of add_frequency, as the text the frequency
\* column holds afterwards
RandomFrequencies == {<<"0", ".", "5">>, <<"1", ".", "0">>}

\* secret_rand.uniform(0.2, 0.75) of get_number_of_terms, in hundredths
Fractions == {20, 34, 50, 75}

\* add_frequency without the test for a null frequency
add_frequency_every_row(df, random_frequency) ==
    [i \in 1..Len(df) |-> [df[i] EXCEPT !.frequency = random_frequency]]

add_frequency(df, random_frequency) ==
    [i \in 1..Len(df) |->
        IF df[i].frequency = None
        THEN [df[i] EXCEPT !.frequency = random_frequency]
        ELSE df[i]]

\* DataFrame.sample(fraction=1, shuffle=True): every order of the rows
shuffle_dataframe(df) ==
    { [i \in 1..Len(df) |-> df[p[i]]] :
        p \in { q \in [1..Len(df) -> 1..Len(df)] :
                  \A i, j \in 1..Len(df) : q[i] = q[j] => i = j } }

\* DataFrame.sample(n, with_replacement=True)
sample_with_replacement(df, n) ==
    { [i \in 1..n |-> df[p[i]]] : p \in [1..n -> 1..Len(df)] }

\* DataFrame.sample(n): n rows at distinct positions
sample(df, n) ==
    { [i \in 1..n |-> df[p[i]]] :
        p \in { q \in [1..n -> 1..Len(df)] :
                  \A i, j \in 1..n : q[i] = q[j] => i = j } }

\* int(len * fraction) for a fraction in hundredths
number_of_terms(len, fraction) == (len * fraction) \div 100

Init ==
    /\ disease_df \in DiseaseSets
    /\ frequency_df = <<>>
    /\ max_number = 0
    /\ filtered_df = <<>>
    /\ worker = "none"
    /\ idx = 0
    /\ supervisor = "add_frequency"
    /\ timed_out = FALSE
    /\ outcome = "none"
    /\ result = <<>>
    /\ last = NoCall
    /\ MutatorIdle /\ OnsetIdle /\ FilesIdle

\* get_patient_terms evaluates shuffle_dataframe(add_frequency()) first
AddFrequencyAndShuffle ==
    /\ supervisor = "add_frequency"
    /\ \E random_frequency \in RandomFrequencies :
          frequency_df' \in shuffle_dataframe(add_frequency(disease_df, random_frequency))
    /\ supervisor' = "get_number_of_terms"
    /\ UNCHANGED <<disease_df, max_number, filtered_df, worker, idx, timed_out,
                   outcome, result, last,
                   mutator_vars, onset_vars, file_vars>>

\* get_number_of_terms without the redraw of a budget of 0
GetNumberOfTerms_no_redraw ==
    /\ supervisor = "get_number_of_terms"
    /\ \E fraction \in Fractions :
          max_number' = IF Len(disease_df) = 1 THEN 1
                        ELSE (Len(disease_df) * fraction) \div 100
    /\ worker' = "running"
    /\ idx' = 1
    /\ supervisor' = "join"
    /\ UNCHANGED <<disease_df, frequency_df, filtered_df, timed_out, outcome,
                   result, last,
                   mutator_vars, onset_vars, file_vars>>

\* One pass of get_number_of_terms: a single row gives 1; otherwise one draw,
\* kept if it is not 0 and redrawn (the state is left as it is) if it is 0.
\* With the budget known filter_phenotype_entries starts the worker and joins.
GetNumberOfTerms ==
    /\ supervisor = "get_number_of_terms"
    /\ \E fraction \in Fractions :
          LET number == IF Len(disease_df) = 1 THEN 1
                        ELSE number_of_terms(Len(disease_df), fraction)
          IN IF number = 0
             THEN UNCHANGED <<max_number, worker, idx, supervisor>>
             ELSE /\ max_number' = number
                  /\ worker' = "running"
                  /\ idx' = 1
                  /\ supervisor' = "join"
    /\ UNCHANGED <<disease_df, frequency_df, filtered_df, timed_out, outcome,
                   result, last,
                   mutator_vars, onset_vars, file_vars>>

Alive == worker = "running"

\* The worker leaves its loops: the for loop breaks, or has ended, with
\* len(self.filtered_df) >= max_number, which also ends the while loop.
WorkerFinishes ==
    /\ Alive
    /\ Len(filtered_df) >= max_number
    /\ worker' = "finished"
    /\ UNCHANGED <<disease_df, frequency_df, max_number, filtered_df, idx, supervisor,
                   timed_out, outcome, result, last,
                   mutator_vars, onset_vars, file_vars>>

\* The iteration of the for loop without the tests of len(self.filtered_df)
\* against max_number
WorkerChecks_unbounded ==
    /\ Alive
    /\ \E u \in UnitDraws :
          LET r == check_frequency(filtered_df, frequency_df[idx], u)
          IN IF r.raised
             THEN /\ worker' = "raised"
                  /\ UNCHANGED <<filtered_df, idx>>
             ELSE /\ filtered_df' = r.filtered_df
                  /\ idx' = IF idx = Len(frequency_df) THEN 1 ELSE idx + 1
                  /\ UNCHANGED worker
    /\ UNCHANGED <<disease_df, frequency_df, max_number, supervisor, timed_out,
                   outcome, result, last,
                   mutator_vars, onset_vars, file_vars>>

\* One iteration of the for loop on the row at idx; after the last row the
\* while loop starts the rows again.  An exception of check_frequency is
\* caught outside both loops, and the thread ends.
WorkerChecks ==
    /\ Alive
    /\ Len(filtered_df) < max_number
    /\ \E u \in UnitDraws :
          LET r == check_frequency(filtered_df, frequency_df[idx], u)
          IN IF r.raised
             THEN /\ worker' = "raised"
                  /\ UNCHANGED <<filtered_df, idx>>
             ELSE /\ filtered_df' = r.filtered_df
                  /\ idx' = IF idx = Len(frequency_df) THEN 1 ELSE idx + 1
                  /\ UNCHANGED worker
    /\ UNCHANGED <<disease_df, frequency_df, max_number, supervisor, timed_out,
                   outcome, result, last,
                   mutator_vars, onset_vars, file_vars>>

\* thread.join(timeout=time_limit) returns: the thread has ended
JoinEnds ==
    /\ supervisor = "join"
    /\ ~Alive
    /\ supervisor' = "is_alive"
    /\ UNCHANGED <<disease_df, frequency_df, max_number, filtered_df, worker, idx,
                   timed_out, outcome, result, last,
                   mutator_vars, onset_vars, file_vars>>

\* thread.join(timeout=time_limit) returns: time_limit has elapsed
JoinTimesOut ==
    /\ supervisor = "join"
    /\ Alive
    /\ timed_out' = TRUE
    /\ supervisor' = "is_alive"
    /\ UNCHANGED <<disease_df, frequency_df, max_number, filtered_df, worker, idx,
                   outcome, result, last,
                   mutator_vars, onset_vars, file_vars>>

\* if thread.is_alive(): stop_event.set()   (the worker never reads stop_event)
IsAlive ==
    /\ supervisor = "is_alive"
    /\ supervisor' = IF Alive THEN "timed_out" ELSE "return"
    /\ UNCHANGED <<disease_df, frequency_df, max_number, filtered_df, worker, idx,
                   timed_out, outcome, result, last,
                   mutator_vars, onset_vars, file_vars>>

\* if len(self.filtered_df) == 0: return frequency_df.sample(n=max_number)
TimedOut ==
    /\ supervisor = "timed_out"
    /\ IF Len(filtered_df) = 0
       THEN /\ result' \in sample(frequency_df, max_number)
            /\ outcome' = "sampled"
            /\ supervisor' = "done"
       ELSE /\ supervisor' = "return_partial"
            /\ UNCHANGED <<outcome, result>>
    /\ UNCHANGED <<disease_df, frequency_df, max_number, filtered_df, worker, idx,
                   timed_out, last,
                   mutator_vars, onset_vars, file_vars>>

\* The timed-out branch filling the accepted rows up to the budget
ReturnPartial_padded ==
    /\ supervisor = "return_partial"
    /\ supervisor' = "done"
    /\ \E pad \in {<<>>} \cup UNION {[1..n -> {frequency_df[i] : i \in 1..Len(frequency_df)}] :
                                      n \in {max_number - Len(filtered_df)} \ {0}} :
          result' = filtered_df \o pad
    /\ outcome' = "partial"
    /\ UNCHANGED <<disease_df, frequency_df, max_number, filtered_df, worker, idx,
                   timed_out, last,
                   mutator_vars, onset_vars, file_vars>>

\* else: return pl.from_dicts(self.filtered_df, ...) of the timed-out branch;
\* the list is read after its length was found not to be 0
ReturnPartial ==
    /\ supervisor = "return_partial"
    /\ supervisor' = "done"
    /\ result' = filtered_df
    /\ outcome' = "partial"
    /\ UNCHANGED <<disease_df, frequency_df, max_number, filtered_df, worker, idx,
                   timed_out, last,
                   mutator_vars, onset_vars, file_vars>>

\* else: return pl.from_dicts(self.filtered_df, ...) when the thread has ended.
\* from_dicts of an empty list has no schema to infer and raises NoDataError;
\* releases that build an empty frame instead return no rows.
Return ==
    /\ supervisor = "return"
    /\ supervisor' = "done"
    /\ result' = filtered_df
    /\ outcome' \in IF filtered_df = <<>> THEN {"raised", "filtered"} ELSE {"filtered"}
    /\ UNCHANGED <<disease_df, frequency_df, max_number, filtered_df, worker, idx,
                   timed_out, last,
                   mutator_vars, onset_vars, file_vars>>

Next ==
    \/ AddFrequencyAndShuffle
    \/ GetNumberOfTerms
    \/ WorkerFinishes
    \/ WorkerChecks
    \/ JoinEnds
    \/ JoinTimesOut
    \/ IsAlive
    \/ TimedOut
    \/ ReturnPartial
    \/ Return

Spec == Init /\ [][Next]_vars

-----------------------------------------------------------------------------
(* Claims on the frequency tests, checked under FrequencySpec *)

\* The accepted list after a test on row e that passes iff pass holds
AfterTest(e, pass) ==
    IF pass /\ ~(\E i \in 1..Len(filtered_df) : filtered_df[i] = e)
    THEN Append(filtered_df, e)
    ELSE filtered_df

\* A step that is a call of one of the tests named in ops
Calls(ops) == last = NoCall /\ last'.op \in ops

IsBin(f) == f \in {HP_0040280, HP_0040281, HP_0040282, HP_0040283,
                   HP_0040284, HP_0040285, HP_0040286}

\* C7: check_hpo_frequency on a row whose frequency is a bin id: a bin of range
\* [100,100] accepts the row whatever the draw; any other bin accepts it iff
\* lower < d < upper for the draw d of [0,100], strictly on both sides; the row
\* is appended only if absent, and on rejection the list is unchanged.
C7_HpoFrequency ==
    [][ (/\ Calls({"check_hpo_frequency", "check_frequency"})
         /\ IsBin(last'.phenotype_entry.frequency))
        => LET e == last'.phenotype_entry
               d == last'.u
               obligate == e.frequency \in {HP_0040280, HP_0040286}
               lower == CASE e.frequency = HP_0040281 -> 0
                          [] e.frequency = HP_0040282 -> 1
                          [] e.frequency = HP_0040283 -> 5
                          [] e.frequency = HP_0040284 -> 30
                          [] e.frequency = HP_0040285 -> 80
                          [] OTHER -> 100
               upper == CASE e.frequency = HP_0040281 -> 0
                          [] e.frequency = HP_0040282 -> 4
                          [] e.frequency = HP_0040283 -> 29
                          [] e.frequency = HP_0040284 -> 79
                          [] e.frequency = HP_0040285 -> 99
                          [] OTHER -> 100
           IN /\ ~last'.raised
              /\ filtered_df' = AfterTest(e, obligate \/ (lower < d /\ d < upper)) ]_vars

\* C7 witness: bin [30,79] with the draw 50 has accepted the row
C7_Witness ==
    /\ last.op = "check_hpo_frequency"
    /\ last.phenotype_entry.frequency = HP_0040284
    /\ last.u = 50
    /\ filtered_df = <<last.phenotype_entry>>

\* C8: a percentage p% with a draw d of [0,100], a fraction n/m and a decimal v
\* with a draw d of [0,1]: the row is appended iff d <= the value (non-strict)
\* and the row is absent; otherwise the list is unchanged.
C8_ThresholdFrequency ==
    [][ /\ (/\ Calls({"check_percentage_frequency", "check_frequency"})
            /\ last'.phenotype_entry.frequency = <<"5", "0", "%">>)
           => (~last'.raised
               /\ filtered_df' = AfterTest(last'.phenotype_entry, last'.u <= 50))
        /\ (/\ Calls({"check_fraction_frequency", "check_frequency"})
            /\ last'.phenotype_entry.frequency = <<"1", "/", "3">>)
           => (~last'.raised
               /\ filtered_df' = AfterTest(last'.phenotype_entry, 3 * last'.u <= 100))
        /\ (/\ Calls({"check_float_frequency", "check_frequency"})
            /\ last'.phenotype_entry.frequency = <<"0", ".", "5">>)
           => (~last'.raised
               /\ filtered_df' = AfterTest(last'.phenotype_entry, 10 * last'.u <= 5 * 100))
        /\ Calls({"check_frequency_threshold"})
           => filtered_df' = AfterTest(last'.phenotype_entry,
                                       last'.u * last'.frequency.den <= last'.frequency.num)
      ]_vars

\* C8 witness: the percentage 50% was met by the draw 50 exactly, row appended
C8_Witness ==
    /\ last.op = "check_percentage_frequency"
    /\ last.phenotype_entry.frequency = <<"5", "0", "%">>
    /\ last.u = 50
    /\ filtered_df = <<last.phenotype_entry>>

\* C9: check_frequency picks the test by the textual form of the frequency, in
\* the order "HP:" prefix, "%" suffix, "/" inside, decimal number; the first
\* form that matches wins, and with no match no test runs and the list is
\* unchanged.
C9_Dispatch ==
    [][ Calls({"check_frequency"})
        => LET f == last'.phenotype_entry.frequency
               t == IF f = None THEN <<"N", "o", "n", "e">> ELSE f
               n == Len(t)
               hpo == n >= 3 /\ t[1] = "H" /\ t[2] = "P" /\ t[3] = ":"
               percentage == n >= 1 /\ t[n] = "%"
               fraction == \E i \in 1..n : t[i] = "/"
               decimal == f \in {<<"0", ".", "5">>}
           IN /\ last'.kind = IF hpo THEN "hpo"
                              ELSE IF percentage THEN "percentage"
                              ELSE IF fraction THEN "fraction"
                              ELSE IF decimal THEN "float"
                              ELSE "none"
              /\ last'.kind = "none" => (filtered_df' = filtered_df /\ ~last'.raised) ]_vars

\* C9 witness: a text that ends with "%" and holds "/" went to the percentage test
C9_Witness ==
    /\ last.op = "check_frequency"
    /\ last.phenotype_entry.frequency = <<"1", "/", "2", "%">>
    /\ last.kind = "percentage"

\* C10: the accepted list never holds two equal rows
C10_NoDuplicates ==
    \A i, j \in 1..Len(filtered_df) : filtered_df[i] = filtered_df[j] => i = j

\* C10 witness: an always-passing test ran on a row that was already accepted
\* (the row is in the list and is not the one at its end), and it was not
\* appended again
C10_Witness ==
    /\ last.op \in {"check_hpo_frequency", "check_frequency"}
    /\ last.phenotype_entry.frequency = HP_0040286
    /\ Len(filtered_df) = 2
    /\ filtered_df[1] = last.phenotype_entry
    /\ filtered_df[2] # last.phenotype_entry

-----------------------------------------------------------------------------
(* Claims on the sampler, checked under Spec *)

\* The budget is known once get_number_of_terms has returned
BudgetDrawn == supervisor \notin {"test", "add_frequency", "get_number_of_terms"}

\* C1: get_number_of_terms returns 1 for a single row, and for N > 1 rows an
\* integer b with 1 <= b <= N, whatever fractions of [0.2, 0.75] are drawn;
\* it never returns 0.
C1_NumberOfTerms ==
    BudgetDrawn =>
        /\ max_number \in 1..Len(disease_df)
        /\ Len(disease_df) = 1 => max_number = 1

\* C1 witness: three rows gave the budget 2
C1_Witness == BudgetDrawn /\ Len(disease_df) = 3 /\ max_number = 2

\* C2 (as claimed): whatever the frequency fields hold, the sampler returns at
\* least 1 and at most budget rows.
C2_NeverEmpty ==
    supervisor = "done" => (Len(result) >= 1 /\ Len(result) <= max_number)

\* result is made of the rows of df at that many distinct positions
IsSample(rows, df) ==
    \E p \in [1..Len(rows) -> 1..Len(df)] :
        /\ \A i, j \in 1..Len(rows) : p[i] = p[j] => i = j
        /\ \A i \in 1..Len(rows) : rows[i] = df[p[i]]

\* C3: when the deadline has expired and the supervisor finds the accepted
\* list empty, it returns exactly budget rows taken at distinct positions of
\* the frequency-augmented rows, whatever their frequencies.
C3_FallbackSample ==
    [][ (supervisor = "timed_out" /\ Len(filtered_df) = 0 /\ supervisor' # "timed_out")
        => /\ supervisor' = "done"
           /\ outcome' = "sampled"
           /\ Len(result') = max_number
           /\ IsSample(result', frequency_df) ]_vars

\* C3 witness: a fallback sample of two rows that holds a row no test accepts
C3_Witness ==
    /\ outcome = "sampled"
    /\ timed_out
    /\ Len(result) = 2
    /\ \E i \in 1..2 : result[i].frequency = <<"o", "f", "t", "e", "n">>

\* Frequencies on which no draw passes a test
NeverAccepted == {HP_0040281, <<"o", "f", "t", "e", "n">>, <<"a", "b", "c", "%">>, None}

\* C4: when the deadline has expired and at least one row is accepted, the
\* result is the accepted list as it is: between 1 and budget rows, each of
\* which a frequency test has accepted, and no row added to reach the budget.
C4_PartialResult ==
    [][ (supervisor = "return_partial" /\ supervisor' # "return_partial")
        => /\ outcome' = "partial"
           /\ result' = filtered_df
           /\ Len(result') \in 1..max_number
           /\ \A i \in 1..Len(result') : result'[i].frequency \notin NeverAccepted ]_vars

\* C4 witness: one accepted row returned on expiry under a budget of two
C4_Witness ==
    /\ outcome = "partial"
    /\ max_number = 2
    /\ Len(result) = 1

\* C5 (as claimed): filter_phenotype_entries ends by returning a result to its
\* caller, on every input; it never ends in an error.
C5_ReturnsResult ==
    supervisor = "done" => outcome \in {"filtered", "partial", "sampled"}

\* C6 (as claimed): the loop ends only on budget reached or deadline elapsed, so
\* a return before the deadline has expired carries exactly budget rows.
C6_TwoExits ==
    (supervisor = "done" /\ ~timed_out) => Len(result) = max_number

\* C11 (as claimed): a row whose frequency is a percentage or a fraction that
\* does not parse is a non-match: when the worker evaluates it the accepted
\* list stays as it is and the worker is still in its loop afterwards, so
\* that the rows after it and the later cycles are evaluated.
C11_MalformedIsNonMatch ==
    [][ (/\ Alive
         /\ Len(filtered_df) < max_number
         /\ frequency_df[idx].frequency \in {<<"a", "b", "c", "%">>, <<"1", "/", "x">>})
        => (filtered_df' = filtered_df /\ Alive') ]_vars

\* C12 (as claimed): a disease annotation set of one row, whatever its
\* frequency, comes back from get_patient_terms as that one row: a result of
\* one row with the term identifier of the row.
C12_SingleRow ==
    (supervisor = "done" /\ Len(disease_df) = 1)
        => /\ outcome # "raised"
           /\ Len(result) = 1
           /\ result[1].hpo_id = disease_df[1].hpo_id

\* C17 (as claimed): once the supervisor has begun to read the accepted list
\* (it has found the thread alive after the deadline, or has returned), the
\* worker appends nothing and evaluates no further row.
C17_WorkerStopped ==
    [][ (supervisor \in {"timed_out", "return_partial", "done"})
        => (filtered_df' = filtered_df /\ idx' = idx) ]_vars

-----------------------------------------------------------------------------
(* patient_term_annotation_set: the walks in the ontology and the mutation   *)
(* of a subsample of the patient's rows.                                     *)

\* One row of the annotation file with its twelve columns (the dict of
\* DataFrame.rows(named=True)).
Annotation(h, o, f, a) ==
    [database_id |-> "OMIM:612567",
     disease_name |-> "Inflammatory bowel disease 25, early onset, autosomal recessive",
     qualifier |-> None, hpo_id |-> h, reference |-> "PMID:21519361",
     evidence |-> "PCS", onset |-> o, frequency |-> f, sex |-> None,
     modifier |-> None, aspect |-> a, biocuration |-> "HPO:probinson[2022-02-27]"]

Terms == {"HP:0000001", "HP:0000118", "HP:0032443", "HP:0000005", "HP:0000007",
          "HP:0025031", "HP:0002583", "HP:0012649", "HP:0004387"}

\* The aliases of each term under the first predicate of entity_alias_map
HpoLabels ==
       ("HP:0000001" :> << <<"A", "l", "l">> >>)
    @@ ("HP:0000118" :> << <<"P", "h", "e", "n", "o", "t", "y", "p", "i", "c", " ", "a",
              "b", "n", "o", "r", "m", "a", "l", "i", "t", "y">> >>)
    @@ ("HP:0032443" :> << <<"P", "a", "s", "t", " ", "m", "e", "d", "i", "c", "a", "l",
              " ", "h", "i", "s", "t", "o", "r", "y">> >>)
    @@ ("HP:0000005" :> << <<"M", "o", "d", "e", " ", "o", "f", " ", "i", "n", "h", "e",
              "r", "i", "t", "a", "n", "c", "e">> >>)
    @@ ("HP:0000007" :> << <<"A", "u", "t", "o", "s", "o", "m", "a", "l", " ", "r", "e",
              "c", "e", "s", "s", "i", "v", "e", " ", "i", "n", "h", "e",
              "r", "i", "t", "a", "n", "c", "e">> >>)
    @@ ("HP:0025031" :> << <<"A", "b", "n", "o", "r", "m", "a", "l", "i", "t", "y", " ",
              "o", "f", " ", "t", "h", "e", " ", "d", "i", "g", "e", "s",
              "t", "i", "v", "e", " ", "s", "y", "s", "t", "e", "m">> >>)
    @@ ("HP:0002583" :> << <<"C", "o", "l", "i", "t", "i", "s">> >>)
    @@ ("HP:0012649" :> << <<"I", "n", "c", "r", "e", "a", "s", "e", "d", " ", "i", "n",
              "f", "l", "a", "m", "m", "a", "t", "o", "r", "y", " ", "r",
              "e", "s", "p", "o", "n", "s", "e">> >>)
    @@ ("HP:0004387" :> << <<"E", "n", "t", "e", "r", "o", "c", "o", "l", "i", "t", "i",
              "s">> >>)

\* hierarchical_parents of each term.  Enterocolitis has two parents; one
\* line of ancestors passes a term labelled "Abnormality of ...", the other
\* reaches the root of the phenotypes; the inheritance terms hang from the
\* top of the ontology, which has no parent.
HpoParents ==
       ("HP:0000001" :> {})
    @@ ("HP:0000118" :> {"HP:0000001"})
    @@ ("HP:0032443" :> {"HP:0000001"})
    @@ ("HP:0000005" :> {"HP:0000001"})
    @@ ("HP:0000007" :> {"HP:0000005"})
    @@ ("HP:0025031" :> {"HP:0000118"})
    @@ ("HP:0002583" :> {"HP:0025031"})
    @@ ("HP:0012649" :> {"HP:0000118"})
    @@ ("HP:0004387" :> {"HP:0002583", "HP:0012649"})

\* An ontology in the shape of HPO
Hpo == [labels |-> HpoLabels, parents |-> HpoParents]

\* An ontology that knows two labels and one edge: a term it has no aliases
\* for gets an empty alias map, a term it has no edge for has no parents and
\* no incoming relationships.
Bare ==
    [labels |-> [t \in Terms |->
                    IF t \in {"HP:0025031", "HP:0004387"} THEN HpoLabels[t] ELSE <<>>],
     parents |-> [t \in Terms |-> IF t = "HP:0025031" THEN {"HP:0004387"} ELSE {}]]

Ontologies == {Hpo, Bare}

\* "".join(rels[list(rels.keys())[0]]) if rels else ""
RECURSIVE join(_)
join(list) == IF list = <<>> THEN <<>> ELSE Head(list) \o join(Tail(list))

entity_alias_map(ont, term_id) == ont.labels[term_id]

hierarchical_parents(ont, term_id) == ont.parents[term_id]

\* incoming_relationships: (predicate, subject) for every edge into the term
incoming_relationships(ont, term_id) ==
    {<<"rdfs:subClassOf", t>> : t \in {c \in Terms : term_id \in ont.parents[c]}}

Abnormality_of == <<"A", "b", "n", "o", "r", "m", "a", "l", "i", "t", "y", " ", "o", "f">>

\* What a walk returned: the row, and how often it asked for parents
Walked(entry, calls) == [returned |-> entry, parents_calls |-> calls]

\* get_children_of_term: every row the draws of secret_rand.choice can give
RECURSIVE descend(_, _, _)
descend(ont, term_id, steps) ==
    IF steps = 0 THEN {term_id}
    ELSE LET descendants == incoming_relationships(ont, term_id)
         IN IF descendants # {}
            THEN UNION {descend(ont, d[2], steps - 1) : d \in descendants}
            ELSE {term_id}

\* get_children_of_term building the row it returns from the term it reached
\* and the frequency and aspect of the row, the other columns left empty
get_children_of_term_rebuilt(ont, phenotype_entry, steps) ==
    {Walked(Annotation(term_id, None, phenotype_entry.frequency, phenotype_entry.aspect), 0) :
        term_id \in descend(ont, phenotype_entry.hpo_id, steps)}

\* get_children_of_term drawing every hop among the children of the term of
\* the row, not of the term the walk stands on
get_children_of_term_of_original(ont, phenotype_entry, steps) ==
    LET descendants == incoming_relationships(ont, phenotype_entry.hpo_id)
    IN {Walked([phenotype_entry EXCEPT !.hpo_id = term_id], 0) :
           term_id \in IF descendants # {} THEN {d[2] : d \in descendants}
                                          ELSE {phenotype_entry.hpo_id}}

get_children_of_term(ont, phenotype_entry, steps) ==
    {Walked([phenotype_entry EXCEPT !.hpo_id = term_id], 0) :
        term_id \in descend(ont, phenotype_entry.hpo_id, steps)}

\* The for loop of get_parents_of_terms from the term the walk stands on:
\* without parents the row is returned as it was passed in.
RECURSIVE ascend(_, _, _, _, _)
ascend(ont, phenotype_entry, term_id, steps, calls) ==
    IF steps = 0
    THEN {Walked([phenotype_entry EXCEPT !.hpo_id = term_id], calls)}
    ELSE LET parents == hierarchical_parents(ont, term_id)
         IN IF parents = {}
            THEN {Walked(phenotype_entry, calls + 1)}
            ELSE UNION {
                   LET term == join(entity_alias_map(ont, parent))
                   IN IF \/ startswith(term, Abnormality_of)
                         \/ term_id = "HP:0000118"
                         \/ term_id = "HP:0032443"
                      THEN {Walked([phenotype_entry EXCEPT !.hpo_id = term_id], calls + 1)}
                      ELSE ascend(ont, phenotype_entry, parent, steps - 1, calls + 1)
                   : parent \in parents }

\* get_parents_of_terms without the test of the label of the term it starts on
get_parents_of_terms_no_early_return(ont, phenotype_entry, steps) ==
    ascend(ont, phenotype_entry, phenotype_entry.hpo_id, steps, 0)

get_parents_of_terms(ont, phenotype_entry, steps) ==
    LET term == join(entity_alias_map(ont, phenotype_entry.hpo_id))
    IN IF startswith(term, Abnormality_of)
       THEN {Walked(phenotype_entry, 0)}
       ELSE ascend(ont, phenotype_entry, phenotype_entry.hpo_id, steps, 0)

\* remove_terms_to_be_randomised returning after the first row of subset
remove_terms_to_be_randomised_first_only(terms, subset) ==
    LET kept(row) == subset = <<>> \/ row.hpo_id # subset[1].hpo_id
    IN SelectSeq(terms, kept)

\* patient_terms.filter(hpo_id != the hpo_id of the row), for every row of subset
remove_terms_to_be_randomised(terms, subset) ==
    LET kept(row) == \A i \in 1..Len(subset) : row.hpo_id # subset[i].hpo_id
    IN SelectSeq(terms, kept)

\* Bound: the largest set of rows handed to the mutator
MaxTerms == 3

\* The onset "Infantile onset"
HP_0003593 == HP(<<"0", "0", "0", "3", "5", "9", "3">>)

\* The rows a patient can hold: two rows of one term that differ in onset and
\* frequency, a row whose term is labelled "Abnormality of ...", a row of an
\* inheritance term (its ancestors end at the top of the ontology), and a row
\* of a term between a leaf and a term labelled "Abnormality of ...".
PatientRows ==
    << Annotation("HP:0004387", None, <<"1", "/", "1">>, "P"),
       Annotation("HP:0004387", HP_0003593, HP_0040283, "P"),
       Annotation("HP:0025031", None, <<"1", "/", "1">>, "P"),
       Annotation("HP:0000007", None, <<"0", ".", "5">>, "I"),
       Annotation("HP:0002583", HP_0003593, <<"1", "/", "3">>, "P") >>

\* The sets of rows get_patient_terms can return: 1..MaxTerms different rows
PatientTermSets ==
    { [i \in 1..Len(c) |-> PatientRows[c[i]]] :
        c \in { d \in UNION {[1..n -> 1..Len(PatientRows)] : n \in 1..MaxTerms} :
                  \A i \in 1..(Len(d) - 1) : d[i] < d[i + 1] } }

\* secret_rand.random() of return_less_or_more_specific, in hundredths
SpecificityDraws == {49, 50}

\* secret_rand.randint(1, 5) of get_number_of_steps_for_randomisation
Steps == 1..5

MutationInit ==
    /\ SamplerIdle /\ OnsetIdle /\ FilesIdle
    /\ ontology \in Ontologies
    /\ patient_terms \in PatientTermSets
    /\ patient_terms_sub_sample = <<>>
    /\ new_phenotype_terms = <<>>
    /\ final_patient_terms = <<>>
    /\ mutator = "start"
    /\ walk = NoWalk

\* patient_term_annotation_set up to the loop: a single row is returned as it
\* is; otherwise subsample_patient_terms draws randint(0, len) rows.
SubsamplePatientTerms ==
    /\ mutator = "start"
    /\ IF Len(patient_terms) = 1
       THEN /\ final_patient_terms' = patient_terms
            /\ mutator' = "done"
            /\ UNCHANGED patient_terms_sub_sample
       ELSE /\ \E n \in 0..Len(patient_terms) :
                  patient_terms_sub_sample' \in sample(patient_terms, n)
            /\ mutator' = "alter"
            /\ UNCHANGED final_patient_terms
    /\ UNCHANGED <<ontology, patient_terms, new_phenotype_terms, walk,
                   sampler_vars, onset_vars, file_vars>>

\* alter_term_specificity making the term less specific for a draw of 0.5 too
AlterTermSpecificity_inclusive ==
    /\ mutator = "alter"
    /\ Len(new_phenotype_terms) < Len(patient_terms_sub_sample)
    /\ \E draw \in SpecificityDraws, steps \in Steps :
          LET phenotype_entry == patient_terms_sub_sample[Len(new_phenotype_terms) + 1]
          IN \E w \in IF Leq(uniform_0_1(draw), Rat(1, 2))
                      THEN get_parents_of_terms(ontology, phenotype_entry, steps)
                      ELSE get_children_of_term(ontology, phenotype_entry, steps) :
                /\ new_phenotype_terms' = Append(new_phenotype_terms, w.returned)
                /\ walk' = [op |-> IF Leq(uniform_0_1(draw), Rat(1, 2))
                                   THEN "get_parents_of_terms"
                                   ELSE "get_children_of_term",
                            phenotype_entry |-> phenotype_entry,
                            draw |-> draw, steps |-> steps,
                            returned |-> w.returned,
                            parents_calls |-> w.parents_calls]
    /\ UNCHANGED <<ontology, patient_terms, patient_terms_sub_sample,
                   final_patient_terms, mutator,
                   sampler_vars, onset_vars, file_vars>>

\* One iteration of the loop of patient_term_annotation_set:
\* alter_term_specificity on the next row of the subsample
AlterTermSpecificity ==
    /\ mutator = "alter"
    /\ Len(new_phenotype_terms) < Len(patient_terms_sub_sample)
    /\ \E draw \in SpecificityDraws, steps \in Steps :
          LET phenotype_entry == patient_terms_sub_sample[Len(new_phenotype_terms) + 1]
          IN \E w \in IF Lt(uniform_0_1(draw), Rat(1, 2))
                      THEN get_parents_of_terms(ontology, phenotype_entry, steps)
                      ELSE get_children_of_term(ontology, phenotype_entry, steps) :
                /\ new_phenotype_terms' = Append(new_phenotype_terms, w.returned)
                /\ walk' = [op |-> IF Lt(uniform_0_1(draw), Rat(1, 2))
                                   THEN "get_parents_of_terms"
                                   ELSE "get_children_of_term",
                            phenotype_entry |-> phenotype_entry,
                            draw |-> draw, steps |-> steps,
                            returned |-> w.returned,
                            parents_calls |-> w.parents_calls]
    /\ UNCHANGED <<ontology, patient_terms, patient_terms_sub_sample,
                   final_patient_terms, mutator,
                   sampler_vars, onset_vars, file_vars>>

\* After the loop: the rows left by remove_terms_to_be_randomised, then the
\* mutated rows
ReturnFinalPatientTerms ==
    /\ mutator = "alter"
    /\ Len(new_phenotype_terms) = Len(patient_terms_sub_sample)
    /\ final_patient_terms' =
          remove_terms_to_be_randomised(patient_terms, patient_terms_sub_sample)
          \o new_phenotype_terms
    /\ mutator' = "done"
    /\ UNCHANGED <<ontology, patient_terms, patient_terms_sub_sample,
                   new_phenotype_terms, walk,
                   sampler_vars, onset_vars, file_vars>>

MutationNext ==
    \/ SubsamplePatientTerms
    \/ AlterTermSpecificity
    \/ ReturnFinalPatientTerms

MutationSpec == MutationInit /\ [][MutationNext]_vars

-----------------------------------------------------------------------------
(* Claims on the mutator, checked under MutationSpec *)

\* C13 (as claimed): whatever rows are accepted (two of them may carry the
\* same term identifier), whatever subsample is drawn and however its rows
\* are mutated, patient_term_annotation_set returns as many rows as were
\* accepted.
C13_MutationConserves ==
    mutator = "done" => Len(final_patient_terms) = Len(patient_terms)

\* C16: get_parents_of_terms on a row whose term has a label that begins with
\* "Abnormality of" returns the row as it is, whatever the number of steps
\* (1..5) and the ontology, and does not ask for the parents of the term.
C16_GenericStop ==
    (/\ walk.op = "get_parents_of_terms"
     /\ LET names == ontology.labels[walk.phenotype_entry.hpo_id]
        IN /\ names # <<>>
           /\ Len(names[1]) >= 14
           /\ SubSeq(names[1], 1, 14) = Abnormality_of)
    => /\ walk.returned = walk.phenotype_entry
       /\ walk.parents_calls = 0

\* C16 witness: five steps asked of "Abnormality of the digestive system",
\* which has a parent in the ontology, and the row came back on that term
C16_Witness ==
    /\ walk.op = "get_parents_of_terms"
    /\ walk.phenotype_entry.hpo_id = "HP:0025031"
    /\ walk.steps = 5
    /\ ontology.parents["HP:0025031"] # {}
    /\ walk.returned.hpo_id = "HP:0025031"

\* C20: a walk up or down changes no column of the row but hpo_id; when the
\* walk cannot move (the term has no parent, no child, or a label that begins
\* with "Abnormality of" when walking up) the row comes back as it was.
C20_MutationFrame ==
    walk.op # "none" =>
        LET given == walk.phenotype_entry
            names == ontology.labels[given.hpo_id]
            generic == /\ names # <<>>
                       /\ Len(names[1]) >= 14
                       /\ SubSeq(names[1], 1, 14) = Abnormality_of
            children == {c \in Terms : given.hpo_id \in ontology.parents[c]}
        IN /\ DOMAIN walk.returned = DOMAIN given
           /\ \A column \in DOMAIN given \ {"hpo_id"} :
                 walk.returned[column] = given[column]
           /\ (walk.op = "get_parents_of_terms"
               /\ (ontology.parents[given.hpo_id] = {} \/ generic))
              => walk.returned = given
           /\ (walk.op = "get_children_of_term" /\ children = {})
              => walk.returned = given

\* C20 witness: a walk down moved a row that has an onset to another term
C20_Witness ==
    /\ walk.op = "get_children_of_term"
    /\ walk.phenotype_entry.onset # None
    /\ walk.returned.hpo_id # walk.phenotype_entry.hpo_id

-----------------------------------------------------------------------------
(* get_onset_range and create_individual *)

OnsetTerm(l, u) == [lower_age |-> l, upper_age |-> u]

onset_hpo ==
       (HP(<<"0", "0", "1", "1", "4", "6", "2">>) :> OnsetTerm(16, 40))
    @@ (HP(<<"0", "0", "1", "1", "4", "6", "0">>) :> OnsetTerm(0, 0))
    @@ (HP(<<"0", "0", "1", "1", "4", "6", "3">>) :> OnsetTerm(1, 5))
    @@ (HP(<<"0", "0", "0", "3", "5", "8", "4">>) :> OnsetTerm(60, 90))
    @@ (HP(<<"0", "0", "2", "5", "7", "0", "9">>) :> OnsetTerm(19, 25))
    @@ (HP(<<"0", "0", "3", "4", "1", "9", "8">>) :> OnsetTerm(0, 0))
    @@ (HP(<<"0", "0", "0", "3", "5", "9", "6">>) :> OnsetTerm(40, 60))
    @@ (HP(<<"0", "0", "0", "3", "6", "2", "1">>) :> OnsetTerm(5, 15))
    @@ (HP(<<"0", "0", "0", "3", "5", "9", "3">>) :> OnsetTerm(0, 1))
    @@ (HP(<<"4", "0", "0", "0", "0", "4", "0">>) :> OnsetTerm(0, 0))
    @@ (HP(<<"0", "0", "1", "1", "4", "6", "1">>) :> OnsetTerm(0, 0))
    @@ (HP(<<"0", "0", "0", "3", "5", "7", "7">>) :> OnsetTerm(0, 0))
    @@ (HP(<<"0", "0", "3", "4", "1", "9", "7">>) :> OnsetTerm(0, 0))
    @@ (HP(<<"0", "0", "2", "5", "7", "0", "8">>) :> OnsetTerm(16, 19))
    @@ (HP(<<"0", "4", "1", "0", "2", "8", "0">>) :> OnsetTerm(1, 15))
    @@ (HP(<<"0", "0", "3", "0", "6", "7", "4">>) :> OnsetTerm(0, 0))
    @@ (HP(<<"0", "0", "0", "3", "6", "2", "3">>) :> OnsetTerm(0, 0))
    @@ (HP(<<"0", "0", "3", "4", "1", "9", "9">>) :> OnsetTerm(0, 0))
    @@ (HP(<<"0", "0", "0", "3", "5", "8", "1">>) :> OnsetTerm(16, 80))
    @@ (HP(<<"0", "0", "2", "5", "7", "1", "0">>) :> OnsetTerm(25, 40))

\* The loop of get_onset_range from row i on, assigning without the comparisons
RECURSIVE onset_loop_unconditional(_, _, _, _)
onset_loop_unconditional(df, i, lower, upper) ==
    IF i > Len(df) THEN OnsetTerm(lower, upper)
    ELSE IF df[i].onset # None
         THEN onset_loop_unconditional(df, i + 1, onset_hpo[df[i].onset].lower_age,
                                       onset_hpo[df[i].onset].upper_age)
         ELSE onset_loop_unconditional(df, i + 1, lower, upper)

\* The loop of get_onset_range from row i on, with self.lower_age and
\* self.upper_age as they stand
RECURSIVE onset_loop(_, _, _, _)
onset_loop(df, i, lower, upper) ==
    IF i > Len(df) THEN OnsetTerm(lower, upper)
    ELSE IF df[i].onset # None
         THEN onset_loop(df, i + 1,
                         IF lower < onset_hpo[df[i].onset].lower_age
                         THEN onset_hpo[df[i].onset].lower_age ELSE lower,
                         IF upper < onset_hpo[df[i].onset].upper_age
                         THEN onset_hpo[df[i].onset].upper_age ELSE upper)
         ELSE onset_loop(df, i + 1, lower, upper)

\* The loop of get_onset_range with the comparison of the upper bound turned
RECURSIVE onset_loop_upper_reversed(_, _, _, _)
onset_loop_upper_reversed(df, i, lower, upper) ==
    IF i > Len(df) THEN OnsetTerm(lower, upper)
    ELSE IF df[i].onset # None
         THEN onset_loop_upper_reversed(df, i + 1,
                         IF lower < onset_hpo[df[i].onset].lower_age
                         THEN onset_hpo[df[i].onset].lower_age ELSE lower,
                         IF upper > onset_hpo[df[i].onset].upper_age
                         THEN onset_hpo[df[i].onset].upper_age ELSE upper)
         ELSE onset_loop_upper_reversed(df, i + 1, lower, upper)

\* get_onset_range with "<" written ">" for the upper bound
get_onset_range_upper_reversed(df, lower, upper) ==
    onset_loop_upper_reversed(df, 1, lower, upper)

\* get_onset_range assigning the range of every onset it meets
get_onset_range_unconditional(df, lower, upper) ==
    onset_loop_unconditional(df, 1, lower, upper)

get_onset_range(df, lower, upper) == onset_loop(df, 1, lower, upper)

\* str(n) of a number that is not negative
RECURSIVE format_int(_)
format_int(n) ==
    LET digit(d) == <<"0", "1", "2", "3", "4", "5", "6", "7", "8", "9">>[d + 1]
    IN IF n < 10 THEN <<digit(n)>> ELSE format_int(n \div 10) \o <<digit(n % 10)>>

\* Individual(id, time_at_last_encounter=TimeElement(age=Age(iso8601duration)))
Individual(pt_id, time) == [id |-> pt_id, time_at_last_encounter |-> time]

TimeElement(duration) == [age |-> [iso8601duration |-> duration]]

\* create_individual taking "no age" from the truth value of age
create_individual_falsy(range, drawn, pt_id) ==
    LET age == IF range = Absent \/ (range.upper_age = 0 /\ range.lower_age = 0)
               THEN Absent ELSE [value |-> drawn]
    IN Individual(IF pt_id = Absent THEN "patient1" ELSE pt_id,
                  IF age # Absent /\ age.value # 0
                  THEN TimeElement(<<"P">> \o format_int(age.value) \o <<"Y">>)
                  ELSE Absent)

\* drawn is secrets_random_num.randint(lower_age, upper_age)
create_individual(range, drawn, pt_id) ==
    LET age == IF range = Absent \/ (range.upper_age = 0 /\ range.lower_age = 0)
               THEN Absent ELSE [value |-> drawn]
    IN Individual(IF pt_id = Absent THEN "patient1" ELSE pt_id,
                  IF age # Absent
                  THEN TimeElement(<<"P">> \o format_int(age.value) \o <<"Y">>)
                  ELSE Absent)

\* Bound: the largest disease annotation set whose onsets are read
MaxOnsetRows == 3

\* Onsets of the rows: none, and one per shape of range: (0,0), (0,1), (1,5),
\* and two that overlap, (16,80) and (25,40)
SampleOnsets ==
    { None, HP(<<"0", "0", "1", "1", "4", "6", "0">>), HP_0003593,
      HP(<<"0", "0", "1", "1", "4", "6", "3">>),
      HP(<<"0", "0", "0", "3", "5", "8", "1">>),
      HP(<<"0", "0", "2", "5", "7", "1", "0">>) }

OnsetSets ==
    UNION { [1..n -> {Annotation("HP:0004387", o, <<"1", "/", "1">>, "P") : o \in SampleOnsets}] :
              n \in 1..MaxOnsetRows }

OnsetInit ==
    /\ disease_df \in OnsetSets
    /\ frequency_df = <<>>
    /\ max_number = 0
    /\ filtered_df = <<>>
    /\ worker = "none"
    /\ idx = 0
    /\ supervisor = "none"
    /\ timed_out = FALSE
    /\ outcome = "none"
    /\ result = <<>>
    /\ last = NoCall
    /\ MutatorIdle /\ FilesIdle
    /\ lower_age = 0
    /\ upper_age = 0
    /\ onset_range = Absent
    /\ individual = Absent
    /\ assembler = "get_onset_range"
    /\ omim_disease_df = <<>>
    /\ phenotypic_features = <<>>

\* synthetic_patient_generator.get_onset_range(), a first time and again on
\* the same generator
GetOnsetRange ==
    /\ assembler \in {"get_onset_range", "create_individual"}
    /\ LET range == get_onset_range(disease_df, lower_age, upper_age)
       IN /\ lower_age' = range.lower_age
          /\ upper_age' = range.upper_age
          /\ onset_range' = range
    /\ assembler' = IF assembler = "get_onset_range" THEN "create_individual"
                    ELSE "create_individual_again"
    /\ UNCHANGED <<individual, omim_disease_df, phenotypic_features,
                   sampler_vars, mutator_vars, file_vars>>

\* create_individual(onset_range, pt_id) with the range get_onset_range
\* returned, or with no range when the caller has none (onset=None)
CreateIndividual ==
    /\ assembler \in {"get_onset_range", "create_individual", "create_individual_again"}
    /\ \E drawn \in (IF onset_range = Absent THEN {0}
                     ELSE onset_range.lower_age..onset_range.upper_age) :
          individual' = create_individual(onset_range, drawn, Absent)
    /\ assembler' = "done"
    /\ UNCHANGED <<lower_age, upper_age, onset_range, omim_disease_df,
                   phenotypic_features, sampler_vars, mutator_vars, file_vars>>

OnsetNext ==
    \/ GetOnsetRange
    \/ CreateIndividual

OnsetSpec == OnsetInit /\ [][OnsetNext]_vars

-----------------------------------------------------------------------------
(* Claims on the onset range and the individual, checked under OnsetSpec *)

\* C14: get_onset_range returns the largest lower bound and the largest upper
\* bound that onset_hpo gives for the onsets of the rows, each at least 0;
\* with no onset in any row it returns (0, 0).
C14_OnsetRange ==
    onset_range # Absent =>
        LET onsets == {disease_df[i].onset : i \in 1..Len(disease_df)} \ {None}
            lowers == {0} \cup {onset_hpo[o].lower_age : o \in onsets}
            uppers == {0} \cup {onset_hpo[o].upper_age : o \in onsets}
        IN /\ onset_range.lower_age \in lowers
           /\ \A l \in lowers : l <= onset_range.lower_age
           /\ onset_range.upper_age \in uppers
           /\ \A u \in uppers : u <= onset_range.upper_age
           /\ onsets = {} => onset_range = OnsetTerm(0, 0)

\* C14 witness: the two bounds of the range come from different rows, and the
\* row read last gives neither
C14_Witness ==
    /\ Len(disease_df) = 3
    /\ disease_df[1].onset = HP(<<"0", "0", "2", "5", "7", "1", "0">>)
    /\ disease_df[2].onset = HP(<<"0", "0", "0", "3", "5", "8", "1">>)
    /\ disease_df[3].onset = HP_0003593
    /\ onset_range = OnsetTerm(25, 80)

\* C15: create_individual gives the individual no age when it is given no
\* onset range or the range (0, 0); for any other range the individual has
\* the age "P<a>Y" for an integer a with lower_age <= a <= upper_age, a = 0
\* included.
C15_Age ==
    assembler = "done" =>
        IF onset_range = Absent \/ onset_range = OnsetTerm(0, 0)
        THEN individual.time_at_last_encounter = Absent
        ELSE /\ individual.time_at_last_encounter # Absent
             /\ \E a \in onset_range.lower_age..onset_range.upper_age :
                   individual.time_at_last_encounter.age.iso8601duration
                      = <<"P">> \o format_int(a) \o <<"Y">>

\* C15 witness: the range (0, 1) gave the age of 0 years
C15_Witness ==
    /\ assembler = "done"
    /\ onset_range = OnsetTerm(0, 1)
    /\ individual.time_at_last_encounter # Absent
    /\ individual.time_at_last_encounter.age.iso8601duration = <<"P", "0", "Y">>

-----------------------------------------------------------------------------
(* create_phenopacket_file_name_from_disease and write_phenopacket *)

Letters ==
    {"a", "b", "c", "d", "e", "f", "g", "h", "i", "j", "k", "l", "m", "n",
     "o", "p", "q", "r", "s", "t", "u", "v", "w", "x", "y", "z", "A", "B",
     "C", "D", "E", "F", "G", "H", "I", "J", "K", "L", "M", "N", "O", "P",
     "Q", "R", "S", "T", "U", "V", "W", "X", "Y", "Z"}

\* \w of re: a letter, a digit or the underscore
IsWord(c) == c \in Letters \cup Digits \cup {"_"}

\* re.sub(r"\W", "_", text): every character that is no word character
\* replaced by an underscore of its own
RECURSIVE re_sub_each(_)
re_sub_each(text) ==
    IF text = <<>> THEN <<>>
    ELSE <<IF IsWord(Head(text)) THEN Head(text) ELSE "_">> \o re_sub_each(Tail(text))

\* text without the characters at its start that are no word characters
RECURSIVE skip_non_word(_)
skip_non_word(text) ==
    IF text = <<>> \/ IsWord(Head(text)) THEN text ELSE skip_non_word(Tail(text))

\* re.sub(r"\W+", "_", text): matches are found from left to right, each as
\* long as it can be, and each is replaced by one underscore
RECURSIVE re_sub(_)
re_sub(text) ==
    IF text = <<>> THEN <<>>
    ELSE IF IsWord(Head(text)) THEN <<Head(text)>> \o re_sub(Tail(text))
    ELSE <<"_">> \o re_sub(skip_non_word(text))

\* str.replace(" ", "_")
replace(text) == [i \in 1..Len(text) |-> IF text[i] = " " THEN "_" ELSE text[i]]

json == <<".", "j", "s", "o", "n">>

\* create_phenopacket_file_name_from_disease with the pattern \W for \W+
create_phenopacket_file_name_from_disease_each(name) ==
    replace(re_sub_each(name)) \o json

create_phenopacket_file_name_from_disease(name) ==
    replace(re_sub(name)) \o json

\* PurePath.stem: the name up to its last ".", when that "." is neither the
\* first nor the last character of the name
LastDot(name) == CHOOSE i \in 1..Len(name) :
                    name[i] = "." /\ \A j \in (i + 1)..Len(name) : name[j] # "."

stem(name) ==
    IF contains(name, ".") /\ LastDot(name) > 1 /\ LastDot(name) < Len(name)
    THEN SubSeq(name, 1, LastDot(name) - 1)
    ELSE name

\* part in text
is_in(part, text) ==
    \E i \in 1..(Len(text) - Len(part) + 1) : SubSeq(text, i, i + Len(part) - 1) = part

PatientInfix == <<"_", "p", "a", "t", "i", "e", "n", "t", "_">>

\* f"{output_file.stem}_patient_{suffix}.json" in the directory of output_file
patient_file(path, suffix) == stem(path) \o PatientInfix \o format_int(suffix) \o json

\* The while loop of write_phenopacket from suffix on: the first suffix whose
\* file is not in the directory
RECURSIVE first_free(_, _, _)
first_free(path, suffix, directory) ==
    IF patient_file(path, suffix) \in directory
    THEN first_free(path, suffix + 1, directory)
    ELSE suffix

\* write_phenopacket without the while loop: the file it opens
write_phenopacket_first_suffix(path, directory) ==
    IF ~is_in(PatientInfix, stem(path))
    THEN patient_file(path, 1)
    ELSE path

\* write_phenopacket: the file it opens
write_phenopacket(path, directory) ==
    IF ~is_in(PatientInfix, stem(path))
    THEN patient_file(path, first_free(path, 1, directory))
    ELSE path

\* Bounds: the longest disease name drawn from NameCharacters, and the number
\* of calls of write_phenopacket with one file name
MaxName == 3
MaxWrites == 3

NameCharacters == {"a", "2", "_", " ", "-"}

\* Two disease names of the tests (the second without its first and last
\* words), and one that holds the word "patient"
ExampleNames ==
    { <<"W", "i", "l", "l", "i", "a", "m", "s", "-", "B", "e", "u", "r",
        "e", "n", " ", "s", "y", "n", "d", "r", "o", "m", "e">>,
      <<"d", "i", "s", "e", "a", "s", "e", " ", "2", "5", ",", " ", "e",
        "a", "r", "l", "y", " ", "o", "n", "s", "e", "t", ",", " ", "a",
        "u", "t", "o", "s", "o", "m", "a", "l">>,
      <<"a", " ", "p", "a", "t", "i", "e", "n", "t", " ", "b">> }

DiseaseNames ==
    UNION {[1..n -> NameCharacters] : n \in 0..MaxName} \cup ExampleNames

\* Files a directory can hold from earlier runs
EarlierFiles ==
    { <<"a", "_", "p", "a", "t", "i", "e", "n", "t", "_", "2", ".", "j", "s", "o", "n">>,
      <<"a", "_", "p", "a", "t", "i", "e", "n", "t", "_", "3", ".", "j", "s", "o", "n">> }

FileInit ==
    /\ SamplerIdle /\ MutatorIdle /\ OnsetIdle
    /\ disease_name \in DiseaseNames
    /\ output_file = <<>>
    /\ files \in SUBSET EarlierFiles
    /\ written = <<>>

CreatePhenopacketFileName ==
    /\ output_file = <<>>
    /\ output_file' = create_phenopacket_file_name_from_disease(disease_name)
    /\ UNCHANGED <<disease_name, files, written, sampler_vars, mutator_vars, onset_vars>>

\* write_phenopacket(phenopacket, output_file): open(..., "w") makes the file
\* or empties the one that is there
WritePhenopacket ==
    /\ output_file # <<>>
    /\ Len(written) < MaxWrites
    /\ LET opened == write_phenopacket(output_file, files)
       IN /\ files' = files \cup {opened}
          /\ written' = Append(written, opened)
    /\ UNCHANGED <<disease_name, output_file, sampler_vars, mutator_vars, onset_vars>>

FileNext ==
    \/ CreatePhenopacketFileName
    \/ WritePhenopacket

FileSpec == FileInit /\ [][FileNext]_vars

-----------------------------------------------------------------------------
(* Claims on the output files, checked under FileSpec *)

\* C18: a call of write_phenopacket with an output path whose stem does not
\* hold "_patient_" opens "<stem>_patient_<k>.json" for the smallest k >= 1
\* whose file is not there yet, so it never opens a file that exists, and the
\* files of n calls with one path are n different files.
C18_DistinctFiles ==
    [][ (/\ written' # written
         /\ ~is_in(PatientInfix, stem(output_file)))
        => LET opened == written'[Len(written')]
               name(k) == stem(output_file) \o PatientInfix \o format_int(k) \o json
           IN /\ \E k \in 1..(Cardinality(files) + 1) :
                    /\ opened = name(k)
                    /\ \A j \in 1..(k - 1) : name(j) \in files
              /\ opened \notin files
              /\ \A i \in 1..Len(written) : written[i] # opened
              /\ files' = files \cup {opened} ]_vars

\* C18 witness: with a_patient_2.json in the directory from an earlier run,
\* two calls for "a.json" have opened a_patient_1.json and then a_patient_3.json
C18_Witness ==
    /\ output_file = <<"a", ".", "j", "s", "o", "n">>
    /\ written = << <<"a", "_", "p", "a", "t", "i", "e", "n", "t", "_", "1", ".", "j", "s", "o", "n">>,
                    <<"a", "_", "p", "a", "t", "i", "e", "n", "t", "_", "3", ".", "j", "s", "o", "n">> >>

\* C19: the file name of a disease is the disease name with every run of
\* characters that are no word characters, taken as long as it can be,
\* replaced by one underscore, the word characters kept in their order, and
\* ".json" after it.
C19_FileName ==
    output_file # <<>> =>
        LET word(c) == c \in Letters \cup Digits \cup {"_"}
            \* the word characters, and the first character of every run
            kept == {i \in 1..Len(disease_name) :
                        word(disease_name[i]) \/ i = 1 \/ word(disease_name[i - 1])}
            at(j) == CHOOSE i \in kept : Cardinality({k \in kept : k <= i}) = j
        IN /\ Len(output_file) = Cardinality(kept) + 5
           /\ \A j \in 1..Cardinality(kept) :
                 output_file[j] = IF word(disease_name[at(j)])
                                  THEN disease_name[at(j)] ELSE "_"
           /\ SubSeq(output_file, Cardinality(kept) + 1, Cardinality(kept) + 5)
                 = <<".", "j", "s", "o", "n">>

\* C19 witness: the two names of the tests and their file names
C19_Witness ==
    \/ /\ disease_name = <<"W", "i", "l", "l", "i", "a", "m", "s", "-", "B", "e", "u", "r",
        "e", "n", " ", "s", "y", "n", "d", "r", "o", "m", "e">>
       /\ output_file = <<"W", "i", "l", "l", "i", "a", "m", "s", "_", "B",
                        "e", "u", "r", "e", "n", "_", "s", "y", "n", "d",
                        "r", "o", "m", "e", ".", "j", "s", "o", "n">>
    \/ /\ disease_name = <<"d", "i", "s", "e", "a", "s", "e", " ", "2", "5", ",", " ", "e",
        "a", "r", "l", "y", " ", "o", "n", "s", "e", "t", ",", " ", "a",
        "u", "t", "o", "s", "o", "m", "a", "l">>
       /\ output_file = <<"d", "i", "s", "e", "a", "s", "e", "_", "2", "5",
                        "_", "e", "a", "r", "l", "y", "_", "o", "n", "s",
                        "e", "t", "_", "a", "u", "t", "o", "s", "o", "m",
                        "a", "l", ".", "j", "s", "o", "n">>

-----------------------------------------------------------------------------
(* Claims on the walks, checked under MutationSpec *)

\* the label of the term begins with "Abnormality of"
IsGeneric(term_id) ==
    LET names == ontology.labels[term_id]
    IN names # <<>> /\ Len(names[1]) >= 14 /\ SubSeq(names[1], 1, 14) = Abnormality_of

IsRoot(term_id) == term_id \in {"HP:0000118", "HP:0032443"}

\* C21 (as claimed): get_parents_of_terms adopts a parent only if the label of
\* the parent does not begin with "Abnormality of" and the parent is not a
\* root (HP:0000118, HP:0032443), so the term of the returned row is generic
\* or a root only if the term of the given row was.
C21_NotPastGenericity ==
    (walk.op = "get_parents_of_terms"
     /\ (IsGeneric(walk.returned.hpo_id) \/ IsRoot(walk.returned.hpo_id)))
    => (IsGeneric(walk.phenotype_entry.hpo_id) \/ IsRoot(walk.phenotype_entry.hpo_id))

\* The walk of get_parents_of_terms as C22 describes it: the loop of the code,
\* but for a term without parents the row returned is on the term reached
RECURSIVE KeepsCurrent(_, _, _)
KeepsCurrent(ont, term_id, steps) ==
    IF steps = 0 \/ ont.parents[term_id] = {}
    THEN {term_id}
    ELSE UNION { IF \/ startswith(join(ont.labels[parent]), Abnormality_of)
                    \/ term_id = "HP:0000118"
                    \/ term_id = "HP:0032443"
                 THEN {term_id}
                 ELSE KeepsCurrent(ont, parent, steps - 1) : parent \in ont.parents[term_id] }

\* C22 (as claimed): when a term the walk of get_parents_of_terms stands on
\* has no parent, at the first step or a later one, the walk ends and the
\* returned row is on that term, the one the ascents taken so far reached.
C22_MissingParent ==
    (walk.op = "get_parents_of_terms" /\ ~IsGeneric(walk.phenotype_entry.hpo_id))
    => walk.returned.hpo_id \in KeepsCurrent(ontology, walk.phenotype_entry.hpo_id, walk.steps)

\* the terms with an edge into the term
ChildrenOf(term_id) == {c \in Terms : term_id \in ontology.parents[c]}

\* the terms k child hops below the term
RECURSIVE ChildHops(_, _)
ChildHops(term_id, k) ==
    IF k = 0 THEN {term_id}
    ELSE UNION {ChildHops(c, k - 1) : c \in ChildrenOf(term_id)}

\* C23: get_children_of_term(row, steps) puts the row on a term k child hops
\* below its term, each hop to a child of the term the walk stands on, with
\* k <= steps and k < steps only if the term reached has no children; a row
\* whose term has no children comes back unchanged.
C23_Specialisation ==
    walk.op = "get_children_of_term" =>
        /\ \E k \in 0..walk.steps :
              /\ walk.returned.hpo_id \in ChildHops(walk.phenotype_entry.hpo_id, k)
              /\ k < walk.steps => ChildrenOf(walk.returned.hpo_id) = {}
        /\ ChildrenOf(walk.phenotype_entry.hpo_id) = {}
              => walk.returned = walk.phenotype_entry

\* C23 witness: five steps asked below "Abnormality of the digestive system";
\* the walk made two hops, to a child of its child, and ended on a leaf
C23_Witness ==
    /\ walk.op = "get_children_of_term"
    /\ walk.steps = 5
    /\ walk.phenotype_entry.hpo_id = "HP:0025031"
    /\ walk.returned.hpo_id = "HP:0004387"
    /\ "HP:0004387" \notin ChildrenOf("HP:0025031")

\* C24: alter_term_specificity appends one row to the list it is given and
\* leaves the rows before it as they are: the row walked up when the draw is
\* below 0.5, the row walked down otherwise, with 1..5 steps; run on the m
\* rows of the subsample (0 <= m <= N rows at different positions of the
\* accepted rows) it has made m rows when the loop ends.
C24_AlterTermSpecificity ==
    [][ /\ (mutator = "alter" /\ new_phenotype_terms' # new_phenotype_terms)
           => LET n == Len(new_phenotype_terms)
                  given == patient_terms_sub_sample[n + 1]
              IN /\ Len(new_phenotype_terms') = n + 1
                 /\ SubSeq(new_phenotype_terms', 1, n) = new_phenotype_terms
                 /\ new_phenotype_terms'[n + 1] = walk'.returned
                 /\ walk'.phenotype_entry = given
                 /\ walk'.steps \in 1..5
                 /\ IF 2 * walk'.draw < 100
                    THEN /\ walk'.op = "get_parents_of_terms"
                         /\ \E w \in get_parents_of_terms(ontology, given, walk'.steps) :
                               w.returned = walk'.returned
                    ELSE /\ walk'.op = "get_children_of_term"
                         /\ \E w \in get_children_of_term(ontology, given, walk'.steps) :
                               w.returned = walk'.returned
        /\ (mutator = "alter" /\ mutator' = "done")
           => /\ Len(new_phenotype_terms) = Len(patient_terms_sub_sample)
              /\ Len(patient_terms_sub_sample) \in 0..Len(patient_terms)
              /\ IsSample(patient_terms_sub_sample, patient_terms) ]_vars

\* C24 witness: the draw 0.5 sent the second row of a subsample down the
\* ontology, after a first row that was moved to another term
C24_Witness ==
    /\ mutator = "alter"
    /\ Len(new_phenotype_terms) = 2
    /\ walk.draw = 50
    /\ walk.op = "get_children_of_term"
    /\ new_phenotype_terms[2] = walk.returned
    /\ new_phenotype_terms[1].hpo_id # patient_terms_sub_sample[1].hpo_id

\* C30: for N > 1 accepted rows and a subsample of m rows,
\* patient_term_annotation_set returns the accepted rows whose term identifier
\* is that of no row of the subsample, and m rows more; that is at most N
\* rows, and N rows when no two accepted rows have the same term identifier.
C30_FinalSize ==
    (mutator = "done" /\ Len(patient_terms) > 1) =>
        LET N == Len(patient_terms)
            m == Len(patient_terms_sub_sample)
            untouched == {i \in 1..N : \A j \in 1..m :
                             patient_terms[i].hpo_id # patient_terms_sub_sample[j].hpo_id}
        IN /\ Len(final_patient_terms) = Cardinality(untouched) + m
           /\ Len(final_patient_terms) <= N
           /\ (\A i, j \in 1..N : patient_terms[i].hpo_id = patient_terms[j].hpo_id => i = j)
              => Len(final_patient_terms) = N

\* C30 witness: three accepted rows, two of them of one term; one of the two
\* was drawn, and two rows came back
C30_Witness ==
    /\ mutator = "done"
    /\ Len(patient_terms) = 3
    /\ patient_terms[1].hpo_id = patient_terms[2].hpo_id
    /\ patient_terms_sub_sample = <<patient_terms[2]>>
    /\ Len(final_patient_terms) = 2

-----------------------------------------------------------------------------
(* Further claims on the onset range, checked under OnsetSpec *)

\* C29: every range get_onset_range returns has 0 <= lower_age <= upper_age,
\* so randint(lower_age, upper_age) of create_individual has an age to draw;
\* a second call on the same generator returns the range of the first.  Every
\* entry of the onset table is itself such a range.
C29_WellOrdered ==
    [][ onset_range' # Absent
        => /\ 0 <= onset_range'.lower_age
           /\ onset_range'.lower_age <= onset_range'.upper_age
           /\ onset_range'.lower_age..onset_range'.upper_age # {}
           /\ onset_range # Absent => onset_range' = onset_range
           /\ \A o \in DOMAIN onset_hpo :
                 0 <= onset_hpo[o].lower_age
                 /\ onset_hpo[o].lower_age <= onset_hpo[o].upper_age ]_vars

\* C29 witness: get_onset_range has been called twice on rows whose onsets
\* overlap, and the range is (25, 80)
C29_Witness ==
    /\ assembler = "create_individual_again"
    /\ onset_range = OnsetTerm(25, 80)

-----------------------------------------------------------------------------
(* Further claims on the sampler, checked under Spec *)

\* C26: the rows add_frequency hands to the sampler are the rows of the
\* disease annotation set, as many as there were (shuffle_dataframe orders
\* them): a frequency that was not null is kept, a null frequency has become
\* a number of [0, 1], no other field differs, and from then on the rows stay
\* as they are through every cycle of the sampler.
C26_AddFrequency ==
    [][ /\ (supervisor = "add_frequency" /\ supervisor' # "add_frequency")
           => \E p \in [1..Len(disease_df) -> 1..Len(disease_df)] :
                 /\ \A i, j \in 1..Len(disease_df) : p[i] = p[j] => i = j
                 /\ Len(frequency_df') = Len(disease_df)
                 /\ \A i \in 1..Len(disease_df) :
                       LET before == disease_df[p[i]]
                           after == frequency_df'[i]
                       IN /\ DOMAIN after = DOMAIN before
                          /\ \A column \in DOMAIN before \ {"frequency"} :
                                after[column] = before[column]
                          /\ after.frequency # None
                          /\ before.frequency # None => after.frequency = before.frequency
                          /\ before.frequency = None
                                => /\ FloatParses(after.frequency)
                                   /\ Leq(Rat(0, 1), FloatOf(after.frequency))
                                   /\ Leq(FloatOf(after.frequency), Rat(1, 1))
        /\ supervisor \notin {"add_frequency"}
           => (frequency_df' = frequency_df /\ disease_df' = disease_df) ]_vars

\* C26 witness: of three rows one had no frequency and has 0.5 now, another
\* kept its 1/3; the worker accepted the later of the two in its first cycle
\* and the earlier one, as it still was, in a later cycle
C26_Witness ==
    /\ Len(disease_df) = 3 /\ Len(frequency_df) = 3
    /\ Cardinality({i \in 1..3 : disease_df[i].frequency = None}) = 1
    /\ \E i \in 1..3 : disease_df[i].frequency = <<"1", "/", "3">>
    /\ \E i, j \in 1..3 :
          /\ j < i
          /\ frequency_df[i].frequency = <<"0", ".", "5">>
          /\ frequency_df[j].frequency = <<"1", "/", "3">>
          /\ filtered_df = <<frequency_df[i], frequency_df[j]>>

\* A frequency no draw can pass: the bin of range [0, 0], or a text that has
\* none of the four forms check_frequency dispatches on
CannotPass(frequency) ==
    \/ frequency = HP_0040281
    \/ /\ ~startswith(str(frequency), <<"H", "P", ":">>)
       /\ ~endswith(str(frequency), <<"%">>)
       /\ ~contains(str(frequency), "/")
       /\ ~is_float(frequency)

\* C27: a row whose frequency is the bin [0, 0] (HP:0040281) or has none of
\* the four forms is never in the accepted list, whatever the cycle, and is in
\* the sampler's result only when that result is the sample taken at expiry
\* of the deadline with nothing accepted.
C27_NeverPasses ==
    /\ \A i \in 1..Len(filtered_df) : ~CannotPass(filtered_df[i].frequency)
    /\ (\E i \in 1..Len(result) : CannotPass(result[i].frequency))
          => (outcome = "sampled" /\ timed_out)

\* C27 witness: the bin [0, 0] and a word stand before a row of 1/3; the
\* worker accepted the third row, went through the two others once more, and
\* the supervisor returned the one accepted row at expiry
C27_Witness ==
    /\ Len(frequency_df) = 3
    /\ frequency_df[1].frequency = HP_0040281
    /\ frequency_df[2].frequency = <<"o", "f", "t", "e", "n">>
    /\ frequency_df[3].frequency = <<"1", "/", "3">>
    /\ max_number = 2
    /\ filtered_df = <<frequency_df[3]>>
    /\ idx = 3
    /\ outcome = "partial"
    /\ result = filtered_df

\* C28: the accepted list, empty at the start, never holds more than budget
\* (max_number) rows, in any state of the worker and the supervisor, before
\* the deadline, when the supervisor reads the list and after expiry; a step
\* leaves the list as it is or appends one row to it, and none removes or
\* reorders rows.
C28_Budget ==
    /\ [](Len(filtered_df) <= max_number)
    /\ [][ \/ filtered_df' = filtered_df
           \/ \E i \in 1..Len(frequency_df) :
                 filtered_df' = Append(filtered_df, frequency_df[i]) ]_vars

\* C28 witness: under a budget of two the supervisor returned the one row
\* accepted at expiry, and the worker, still running, has accepted a second
C28_Witness ==
    /\ max_number = 2
    /\ timed_out
    /\ outcome = "partial"
    /\ Len(result) = 1
    /\ Len(filtered_df) = 2
    /\ filtered_df[1] = result[1]

-----------------------------------------------------------------------------
(* The phenotypic features of the converter                                 *)
(* (PhenotypeAnnotationToPhenopacketConverter, lines 619-712).  A feature   *)
(* is the record of the fields of the message its constructor builds: a    *)
(* message field given as None is not set (Absent), a text field given as  *)
(* None is the empty text, a repeated field given as None is empty.        *)

HP_0012828 == HP(<<"0", "0", "1", "2", "8", "2", "8">>)

HP_0031796 == HP(<<"0", "0", "3", "1", "7", "9", "6">>)

\* The term an identifier read from the onset or the modifier column names
Identifier ==
       (HP_0003593 :> "HP:0003593")
    @@ (HP_0012828 :> "HP:0012828")
    @@ (HP_0031796 :> "HP:0031796")

\* self.human_phenotype_ontology: the ontology with the labels of an onset and
\* of a modifier, and a modifier it has no aliases for
FeatureHpo ==
    [labels |-> HpoLabels
                @@ ("HP:0003593" :> << <<"I", "n", "f", "a", "n", "t", "i", "l", "e", " ",
                                         "o", "n", "s", "e", "t">> >>)
                @@ ("HP:0012828" :> << <<"S", "e", "v", "e", "r", "e">> >>)
                @@ ("HP:0031796" :> <<>>),
     parents |-> HpoParents]

\* An ontology that has aliases for no term
FeatureBare ==
    [labels |-> [t \in DOMAIN FeatureHpo.labels |-> <<>>], parents |-> HpoParents]

FeatureOntologies == {FeatureHpo, FeatureBare}

\* str.split(sep)
RECURSIVE split(_, _)
split(s, sep) ==
    IF ~contains(s, sep) THEN <<s>>
    ELSE LET i == CHOOSE k \in 1..Len(s) : s[k] = sep /\ \A j \in 1..(k - 1) : s[j] # sep
         IN <<SubSeq(s, 1, i - 1)>> \o split(SubSeq(s, i + 1, Len(s)), sep)

\* list(set(texts)): the texts without repetition, in the order the hashes of
\* the run give them; hash_order lists the texts that can occur in that order
list_of_set(texts, hash_order) ==
    SelectSeq(hash_order, LAMBDA m : \E i \in 1..Len(texts) : texts[i] = m)

OntologyClass(id, label) == [id |-> id, label |-> IF label = None THEN <<>> ELSE label]

\* A list returned where None can be returned instead
Listed(list) == [list |-> list]

\* TimeElement(ontology_class=...)
TimeElementOf(ontology_class) == [ontology_class |-> ontology_class]

PhenotypicFeature(type, onset, modifiers, excluded) ==
    [type |-> type, onset |-> onset,
     modifiers |-> IF modifiers = Absent THEN <<>> ELSE modifiers.list,
     excluded |-> excluded]

\* "".join(rels[list(rels.keys())[0]]) if rels else None
label_of(rels) == IF rels # <<>> THEN join(rels) ELSE None

create_onset(ont, phenotype_annotation_entry) ==
    IF phenotype_annotation_entry.onset # None
    THEN LET rels == entity_alias_map(ont, Identifier[phenotype_annotation_entry.onset])
         IN TimeElementOf(OntologyClass(phenotype_annotation_entry.onset, label_of(rels)))
    ELSE Absent

\* An empty alias map raises IndexError, and the class is built without label
create_modifier(ont, phenotype_annotation_entry, hash_order) ==
    IF phenotype_annotation_entry.modifier # None
    THEN LET modifiers == list_of_set(split(phenotype_annotation_entry.modifier, ";"),
                                      hash_order)
         IN Listed([i \in 1..Len(modifiers) |->
                       LET rels == entity_alias_map(ont, Identifier[modifiers[i]])
                       IN IF rels # <<>>
                          THEN OntologyClass(modifiers[i], join(rels))
                          ELSE OntologyClass(modifiers[i], None)])
    ELSE Absent

\* create_phenotypic_feature without the test of the aspect
create_phenotypic_feature_any_aspect(ont, phenotype_annotation_entry, hash_order) ==
    LET rels == entity_alias_map(ont, phenotype_annotation_entry.hpo_id)
    IN PhenotypicFeature(
           OntologyClass(phenotype_annotation_entry.hpo_id, label_of(rels)),
           create_onset(ont, phenotype_annotation_entry),
           create_modifier(ont, phenotype_annotation_entry, hash_order),
           phenotype_annotation_entry.qualifier = <<"N", "O", "T">>)

create_phenotypic_feature(ont, phenotype_annotation_entry, hash_order) ==
    IF phenotype_annotation_entry.aspect = "P"
    THEN LET rels == entity_alias_map(ont, phenotype_annotation_entry.hpo_id)
         IN PhenotypicFeature(
                OntologyClass(phenotype_annotation_entry.hpo_id, label_of(rels)),
                create_onset(ont, phenotype_annotation_entry),
                create_modifier(ont, phenotype_annotation_entry, hash_order),
                phenotype_annotation_entry.qualifier = <<"N", "O", "T">>)
    ELSE Absent

\* The loop over omim_disease_df.rows(named=True), appending what is not None
create_phenotypic_features(ont, df, hash_order) ==
    SelectSeq([i \in 1..Len(df) |-> create_phenotypic_feature(ont, df[i], hash_order)],
              LAMBDA phenotypic_feature : phenotypic_feature # Absent)

\* A row with its qualifier and modifier columns filled
FeatureRow(q, h, o, m, a) ==
    [Annotation(h, o, None, a) EXCEPT !.qualifier = q, !.modifier = m]

MaxFeatureRows == 3

\* The rows given to the converter: the row with onset and modifier and the
\* row with neither of the tests, excluded rows with two modifiers and with
\* one modifier twice, and rows of the aspects I and C, one with every column
\* of a feature filled
FeatureRows ==
    << FeatureRow(None, "HP:0004387", HP_0003593, HP_0012828, "P"),
       FeatureRow(None, "HP:0004387", None, None, "P"),
       FeatureRow(<<"N", "O", "T">>, "HP:0025031", None,
                  HP_0012828 \o <<";">> \o HP_0031796, "P"),
       FeatureRow(<<"N", "O", "T">>, "HP:0002583", HP_0003593,
                  HP_0012828 \o <<";">> \o HP_0012828, "P"),
       FeatureRow(None, "HP:0000007", None, None, "I"),
       FeatureRow(<<"N", "O", "T">>, "HP:0000005", HP_0003593, HP_0012828, "C") >>

FeatureSets ==
    UNION { [1..n -> {FeatureRows[i] : i \in 1..Len(FeatureRows)}] : n \in 0..MaxFeatureRows }

\* The orders in which a set of modifiers can be listed
HashOrders == { <<HP_0012828, HP_0031796>>, <<HP_0031796, HP_0012828>> }

FeatureInit ==
    /\ SamplerIdle /\ FilesIdle
    /\ ontology \in FeatureOntologies
    /\ patient_terms = <<>>
    /\ patient_terms_sub_sample = <<>>
    /\ new_phenotype_terms = <<>>
    /\ final_patient_terms = <<>>
    /\ mutator = "none"
    /\ walk = NoWalk
    /\ lower_age = 0
    /\ upper_age = 0
    /\ onset_range = Absent
    /\ individual = Absent
    /\ assembler = "create_phenotypic_features"
    /\ omim_disease_df \in FeatureSets
    /\ phenotypic_features = <<>>

\* converter.create_phenotypic_features(omim_disease_df)
CreatePhenotypicFeatures ==
    /\ assembler = "create_phenotypic_features"
    /\ \E hash_order \in HashOrders :
          phenotypic_features' = create_phenotypic_features(ontology, omim_disease_df,
                                                            hash_order)
    /\ assembler' = "done"
    /\ UNCHANGED <<lower_age, upper_age, onset_range, individual, omim_disease_df,
                   sampler_vars, mutator_vars, file_vars>>

FeatureNext == CreatePhenotypicFeatures

FeatureSpec == FeatureInit /\ [][FeatureNext]_vars

-----------------------------------------------------------------------------
(* Claim on the phenotypic features, checked under FeatureSpec *)

\* The rows of aspect "P", in row order
PhenotypeRows(df) == SelectSeq(df, LAMBDA row : row.aspect = "P")

\* C25: create_phenotypic_features returns one feature for every row of
\* aspect "P" and none for a row of another aspect, in the order of the rows;
\* the feature is excluded exactly when the qualifier of its row is "NOT", has
\* an onset exactly when the onset of the row is not null, and has modifiers
\* exactly when the modifier of the row is not null.
C25_Features ==
    [][ (assembler = "create_phenotypic_features" /\ assembler' = "done")
        => LET rows == PhenotypeRows(omim_disease_df)
           IN /\ Len(phenotypic_features') = Len(rows)
              /\ \A k \in 1..Len(rows) :
                    LET row == rows[k]
                        feature == phenotypic_features'[k]
                    IN /\ feature.type.id = row.hpo_id
                       /\ feature.excluded <=> (row.qualifier = <<"N", "O", "T">>)
                       /\ (feature.onset # Absent) <=> (row.onset # None)
                       /\ (feature.onset # Absent)
                             => feature.onset.ontology_class.id = row.onset
                       /\ (feature.modifiers # <<>>) <=> (row.modifier # None) ]_vars

\* C25 witness: of three rows the one of aspect "I" in the middle gave no
\* feature; the first feature is excluded and has two modifiers and no onset,
\* the second is not excluded and has an onset and one modifier
C25_Witness ==
    /\ assembler = "done"
    /\ Len(omim_disease_df) = 3
    /\ omim_disease_df[2].aspect = "I"
    /\ Len(phenotypic_features) = 2
    /\ phenotypic_features[1].excluded
    /\ phenotypic_features[1].onset = Absent
    /\ Len(phenotypic_features[1].modifiers) = 2
    /\ ~phenotypic_features[2].excluded
    /\ phenotypic_features[2].onset # Absent
    /\ Len(phenotypic_features[2].modifiers) = 1

====
